---- MODULE Spec2Model ----
(***************************************************************************)
(* One cross-rollup attempt of the dome client, as the scenarios of        *)
(* src/test run it: CreateTransaction for the leg of rollup A and for the  *)
(* leg of rollup B, CreateCrossTxRequestMsg, SendCrossTxRequestMsg, then   *)
(* GetTransactionDetails for each leg's hash on its own rollup.            *)
(*                                                                         *)
(* The two rollups and the coordinator are not part of the repository:     *)
(* every answer they give is a nondeterministic choice.  A blocked call    *)
(* or select that also listens to a context ends with whichever event      *)
(* comes first: an answer (or timer) that is taken before Cancel, or the   *)
(* context's Done once Cancel has happened.                                *)
(***************************************************************************)
EXTENDS Integers, Sequences, FiniteSets, TLC

\* The two legs of a bundle: the transaction for rollup A and the one for rollup B.
Legs == {"A", "B"}

\* transactions.go:147  maxRetries := 10
maxRetries == 10

\* README.md:41, 46  the chain ids of rollup A and rollup B.
ChainIdA == 77777
ChainIdB == 88888

\* cross_tx.go:15  const sendTxRPCMethod = "eth_sendXTransaction"
sendTxRPCMethod == "eth_sendXTransaction"

\* Largest nonce the model hands to a builder or lets a chain report.
MaxNonce == 2

\* Most "pending" answers the model lets a rollup give to one poll.
MaxPending == 3

\* Largest numOfTxs the model gives a stress scenario.
MaxTxs == 4

\* Most recipients the model hands to DistributeEth.
MaxRecipients == 3

\* Most calls of CreateCrossTxRequestMsg the model makes on the same inputs.
MaxEncodeCalls == 2

\* A pending-wait budget below the number of pending answers the model reaches.
PendingBudget == MaxPending - 1

VARIABLES
    ctxDone,        \* the caller's context has been cancelled
    rollupChainID,  \* per leg, ChainID() of the rollup of the leg's account
    pendingNonce,   \* per leg, the nonce PendingNonceAt reports for the account
    parallel,       \* the scenario polls the two legs in two goroutines
    scenario,       \* how the scenario sorts the legs into the lists it polls
    buildPc,        \* per leg, position of CreateTransaction
    buildErr,       \* per leg, the error CreateTransaction returned ("nil" if none)
    buildCall,      \* per leg, the builder that was called
    nonceArg,       \* per leg, the nonce argument of CreateTransactionWithNonce, if any
    nonceQueries,   \* per leg, number of PendingNonceAt calls
    signed,         \* per leg, the transaction the builder signed: none, then one
    signedTx,       \* per leg, the bytes MarshalBinary returned
    txOut,          \* per leg, the transaction the builder returned: nil, or one
    directSends,    \* legs handed to SendTransaction
    bundle,         \* the messages CreateCrossTxRequestMsg produced: none, then one
    encoded,        \* the bytes CreateCrossTxRequestMsg returned
    encodeLog,      \* the calls of CreateCrossTxRequestMsg: inputs and returned bytes
    decoded,        \* the messages a receiver decoded from those bytes: none, then one
    submitPc,       \* position of SendCrossTxRequestMsg
    submitErr,      \* the error SendCrossTxRequestMsg returned
    rpcCalls,       \* eth_sendXTransaction calls issued
    rpcLog,         \* the remote calls issued, in order, with method and parameters
    sendAnswer,     \* the answer to the latest CallContext
    openConns,      \* connections opened by SendCrossTxRequestMsg and not yet closed
    pollPc,         \* per leg, position of GetTransactionDetails
    retryCount,     \* per leg, the local retryCount
    notFoundSeen,   \* per leg, number of not-found answers the call received
    pollRollup,     \* per leg, the chain id of the rollup the call was given: none, or one
    pendingCount,   \* per leg, number of pending answers received
    queries,        \* per leg, number of client.TransactionByHash calls
    receiptFetches, \* per leg, number of client.TransactionReceipt calls
    lastAnswer,     \* per leg, the answer to the latest TransactionByHash call
    waitLog,        \* per leg, the intervals of the waits the call has begun, in order
    found,          \* per leg, some answer reported the transaction (pending or mined)
    pollConn,       \* per leg, the ethclient of the call is open
    receiptAnswer,  \* per leg, the answer to the TransactionReceipt call
    outcome,        \* per leg, what GetTransactionDetails returned
    accountConn,    \* per leg, the account's ethclient (Account.client) is open
    envSet,         \* CONFIG_PATH is set in the environment
    fileReadable,   \* os.ReadFile(configPath) succeeds
    externalDoc,    \* the document in the file CONFIG_PATH names
    embeddedDoc,    \* the document compiled into the binary (embeddedConfig)
    cfgPc,          \* position of the configs package's init()
    cfgSource,      \* the source the configuration was loaded from: none, or one
    Values,         \* configs.Values: nothing, or the document unmarshalled into it
    sessionPc,      \* position of GenerateRandomSessionID
    sessionEntropy, \* how the read of rand.Reader ended
    sessionID,      \* the *big.Int GenerateRandomSessionID returned: nil, or one
    recipients,     \* DistributeEth: the number of recipients it was handed
    distPc,         \* DistributeEth: its position
    distFetches,    \* DistributeEth: number of sponsor.GetNonce calls
    distN0,         \* DistributeEth: the nonce GetNonce returned: none, or one
    distNonce,      \* DistributeEth: the local nonce
    distIdx,        \* DistributeEth: index of the recipient in hand, from 0
    distSent,       \* DistributeEth: the SendTransaction calls, in order
    distReceipts,   \* DistributeEth: what GetTransactionDetails returned, in order
    distErr,        \* DistributeEth: the error it returned
    address,        \* per leg, GetAddress() of the leg's account
    calldata,       \* per leg, the arguments bridgeABI.Pack was given: none, or one
    planTest,       \* the stress scenario that plans nonces
    numOfTxs,       \* the scenario's numOfTxs
    planN0,         \* per leg, the nonce GetNonce returned to the scenario
    planI,          \* the scenario's loop index i
    planned,        \* per leg, the nonces handed to builders for the account, in order
    packV,          \* the first argument of the pack function, a big.Int
    packC,          \* the second argument of the pack function, a big.Int
    packFn,         \* the pack function that was called
    packPc,         \* position of the pack function
    packOut         \* the [32]byte the pack function returned

vars == <<ctxDone, rollupChainID, pendingNonce, parallel, scenario, buildPc, buildErr, buildCall,
          nonceArg, nonceQueries, signed, signedTx, txOut, directSends, bundle, encoded,
          encodeLog, decoded, submitPc, submitErr, rpcCalls, rpcLog, sendAnswer, openConns, pollPc,
          notFoundSeen, pollRollup, retryCount, pendingCount, queries, receiptFetches,
          lastAnswer, found, waitLog, pollConn, receiptAnswer, outcome, accountConn, envSet,
          fileReadable, externalDoc, embeddedDoc, cfgPc, cfgSource, Values, sessionPc,
          sessionEntropy, sessionID, recipients, distPc, distFetches, distN0, distNonce,
          distIdx, distSent, distReceipts, distErr, address, calldata, planTest, numOfTxs,
          planN0, planI, planned, packV, packC, packFn, packPc, packOut>>

inputVars == <<rollupChainID, pendingNonce, parallel, scenario>>
buildVars == <<buildPc, buildErr, buildCall, nonceArg, nonceQueries, signed, signedTx,
               txOut, directSends>>
cfgVars == <<envSet, fileReadable, externalDoc, embeddedDoc, cfgPc, cfgSource, Values>>
sessionVars == <<sessionPc, sessionEntropy, sessionID>>
distVars == <<recipients, distPc, distFetches, distN0, distNonce, distIdx, distSent,
              distReceipts, distErr>>
calldataVars == <<address, calldata>>
planVars == <<planTest, numOfTxs, planN0, planI, planned>>
packVars == <<packV, packC, packFn, packPc, packOut>>
unitVars == <<distVars, calldataVars, planVars, packVars>>
procVars == <<accountConn, cfgVars, sessionVars, unitVars>>
msgVars == <<bundle, encoded, encodeLog, decoded>>
submitVars == <<submitPc, submitErr, rpcCalls, rpcLog, sendAnswer, openConns>>
pollVars == <<pollPc, pollRollup, retryCount, notFoundSeen, pendingCount, queries, receiptFetches,
              lastAnswer, found, waitLog, pollConn, receiptAnswer, outcome>>

----------------------------------------------------------------------------
\* Contexts.  "ctx" is the caller's context, "background" is context.Background().

\* A context's Done channel is closed: only the caller's context is ever cancelled.
CtxIsDone(c) == c = "ctx" /\ ctxDone

\* part_003:101  ac.client.PendingNonceAt(context.Background(), address)
GetNonceCtx == "background"

\* cross_tx.go:53  l1Client.CallContext(ctx, nil, sendTxRPCMethod, ...)
SendCallCtx == "ctx"

\* transactions.go:154  client.TransactionByHash(ctx, txHash)
PollQueryCtx == "ctx"

\* A wait that listens to no context, as time.Sleep(retryInterval) would.
PollWaitCtxBackground == "background"

\* transactions.go:163-168 and 177-182  select on ctx.Done() and time.After(retryInterval)
PollWaitCtx == "ctx"

\* transactions.go:186  client.TransactionReceipt(ctx, txHash)
ReceiptCtx == "ctx"

----------------------------------------------------------------------------
\* Error messages, by their format string.

ErrNil == "nil"
ErrGetNonce == "failed to get nonce"
ErrKeyNil == "private key is nil"
ErrSign == "failed to sign transaction"
ErrMarshalTx == "failed to marshal transaction"
ErrDialRPC == "could not connect to custom rpc"
ErrRPCCall == "RPC call failed"
ErrConnect == "failed to connect to RPC URL"
ErrNotFoundAfterRetries == "transaction receipt not found after %d retries for hash"
ErrCancelled == "context cancelled while waiting for transaction"
ErrGetTx == "failed to get transaction by hash"
ErrGetReceipt == "failed to get transaction receipt for hash"

\* What GetTransactionDetails returns: (tx, receipt, err); n is the %d of the message.
Returned(tx, receipt, err, n) == [tx |-> tx, receipt |-> receipt, err |-> err, n |-> n]

NoOutcome == Returned(FALSE, "nil", "none", 0)

\* What each error message of GetTransactionDetails is formatted with
\* (transactions.go:137, 160, 165, 170, 179, 188); "cause" is a wrapped %w error.
ErrorNames(err) ==
    CASE err = ErrConnect -> {"rpcURL", "cause"}
      [] err = ErrNotFoundAfterRetries -> {"retries", "hash"}
      [] err = ErrCancelled -> {"hash"}
      [] err = ErrGetTx -> {"hash", "cause"}
      [] err = ErrGetReceipt -> {"hash", "cause"}
      [] OTHER -> {}

----------------------------------------------------------------------------
\* Bytes, hex text and the protobuf wire format of composeproto.Message.
\* A byte slice is a sequence over 0..255.

RECURSIVE Flatten(_)
\* The concatenation of a sequence of byte slices.
Flatten(ss) == IF ss = <<>> THEN <<>> ELSE Head(ss) \o Flatten(Tail(ss))

\* The sixteen digits hexutil.Encode writes.
HexDigits == <<"0", "1", "2", "3", "4", "5", "6", "7",
               "8", "9", "a", "b", "c", "d", "e", "f">>

\* hexutil.Encode(b) (cross_tx.go:53): "0x", then two digits per byte.
HexEncode(b) ==
    <<"0", "x">> \o
    Flatten([i \in 1..Len(b) |-> <<HexDigits[(b[i] \div 16) + 1], HexDigits[(b[i] % 16) + 1]>>])

\* "client" as the bytes of the Go string.
ClientBytes == <<99, 108, 105, 101, 110, 116>>

\* The bytes of a sender id.
StringBytes(str) == IF str = "client" THEN ClientBytes ELSE <<>>

\* The sender id a byte string spells.
BytesString(b) == IF b = ClientBytes THEN "client" ELSE IF b = <<>> THEN "" ELSE "other"

RECURSIVE Varint(_)
\* protobuf base-128 varint, least significant group first.
Varint(n) == IF n < 128 THEN <<n>> ELSE <<128 + (n % 128)>> \o Varint(n \div 128)

\* A field key: field number and wire type (0 varint, 2 length-delimited).
Tag(field, wire) == Varint(field * 8 + wire)

\* A length-delimited field (string, bytes, embedded message).
LenField(field, b) == Tag(field, 2) \o Varint(Len(b)) \o b

\* A uint64 field; proto3 leaves a zero value off the wire.
VarintField(field, n) == IF n = 0 THEN <<>> ELSE Tag(field, 0) \o Varint(n)

\* TransactionRequest{ChainId uint64 = 1; Transaction [][]byte = 2}
MarshalTransactionRequest(tr) ==
    VarintField(1, tr.chainId)
    \o Flatten([i \in 1..Len(tr.transaction) |-> LenField(2, tr.transaction[i])])

\* XTRequest{TransactionRequests []*TransactionRequest = 1}
MarshalXTRequest(reqs) ==
    Flatten([i \in 1..Len(reqs) |-> LenField(1, MarshalTransactionRequest(reqs[i]))])

\* proto.Marshal(msg) (cross_tx.go:38): Message{SenderId = 1; oneof Payload{XtRequest = 2}}
Marshal(msg) ==
    (IF msg.senderId = "" THEN <<>> ELSE LenField(1, StringBytes(msg.senderId)))
    \o LenField(2, MarshalXTRequest(msg.requests))

\* One base-128 varint read at position i: its value and the position after it.
RECURSIVE ReadVarint(_, _)
ReadVarint(b, i) ==
    IF b[i] < 128 THEN [val |-> b[i], next |-> i + 1]
    ELSE LET r == ReadVarint(b, i + 1)
         IN  [val |-> (b[i] - 128) + 128 * r.val, next |-> r.next]

\* The fields of an encoded message from position i on, in wire order.
RECURSIVE ParseFields(_, _)
ParseFields(b, i) ==
    IF i > Len(b) THEN <<>>
    ELSE LET k == ReadVarint(b, i)
             field == k.val \div 8
             wire == k.val % 8
             v == ReadVarint(b, k.next)
         IN  IF wire = 0
             THEN <<[field |-> field, wire |-> 0, num |-> v.val, bytes |-> <<>>]>>
                  \o ParseFields(b, v.next)
             ELSE <<[field |-> field, wire |-> 2, num |-> 0,
                     bytes |-> SubSeq(b, v.next, v.next + v.val - 1)]>>
                  \o ParseFields(b, v.next + v.val)

\* The fields of fs with the given number and wire type; a known field that
\* arrives with another wire type is skipped as unknown.
FieldsOf(fs, field, wire) == SelectSeq(fs, LAMBDA f : f.field = field /\ f.wire = wire)

\* A decoded TransactionRequest: the last chain id wins, payloads keep their order.
UnmarshalTransactionRequest(b) ==
    LET ids == FieldsOf(ParseFields(b, 1), 1, 0)
        txs == FieldsOf(ParseFields(b, 1), 2, 2)
    IN  [chainId |-> IF ids = <<>> THEN 0 ELSE ids[Len(ids)].num,
         transaction |-> [i \in 1..Len(txs) |-> txs[i].bytes]]

\* proto.Unmarshal(b, &msg): the receiver's view of the bytes.
Unmarshal(b) ==
    LET top == ParseFields(b, 1)
        ids == FieldsOf(top, 1, 2)
        xts == FieldsOf(top, 2, 2)
        reqs == IF xts = <<>> THEN <<>> ELSE FieldsOf(ParseFields(xts[Len(xts)].bytes, 1), 1, 2)
    IN  [senderId |-> IF ids = <<>> THEN "" ELSE BytesString(ids[Len(ids)].bytes),
         requests |-> [i \in 1..Len(reqs) |-> UnmarshalTransactionRequest(reqs[i].bytes)]]

----------------------------------------------------------------------------
\* The configuration (package configs, part_000:131-331).  A document is what
\* yaml.Unmarshal makes of a file: whether it parses, and the chain and
\* contract entries it carries.  Strings that the code inspects are sequences
\* of characters.

ChainNameRollupA == "rollup-a"
ChainNameRollupB == "rollup-b"
ContractNameBridge == "bridge"
ContractNamePingPong == "pingpong"
ContractNameToken == "bridgeabletoken"

\* part_000:313-315  strings.TrimPrefix(strings.TrimPrefix(s, "0x"), "0X")
TrimPrefix(s, c) ==
    IF Len(s) >= 2 /\ s[1] = "0" /\ s[2] = c THEN SubSeq(s, 3, Len(s)) ELSE s

stripHexPrefix(s) == TrimPrefix(TrimPrefix(s, "x"), "X")

\* part_000:317-322  every chain entry's pk loses its hex prefix.
normalizePrivateKeys(doc) ==
    [doc EXCEPT !.chains =
        [n \in DOMAIN doc.chains |->
            [doc.chains[n] EXCEPT !.pk = stripHexPrefix(doc.chains[n].pk)]]]

\* part_000:259-284  the errors validateChainConfig joins.
validateChainConfig(chains) ==
    (IF Cardinality(DOMAIN chains) # 2 THEN {<<"exactly two chain configs", "">>} ELSE {})
    \cup {<<"chain config must be provided", n>> :
              n \in {ChainNameRollupA, ChainNameRollupB} \ DOMAIN chains}
    \cup {<<"id must be set", n>> : n \in {m \in DOMAIN chains : chains[m].id = 0}}
    \cup {<<"rpc-url must be set", n>> : n \in {m \in DOMAIN chains : chains[m].rpcUrl = <<>>}}
    \cup {<<"pk must be set", n>> : n \in {m \in DOMAIN chains : chains[m].pk = <<>>}}

\* part_000:286-311  the errors validateContractsConfig joins.
validateContractsConfig(contracts) ==
    (IF Cardinality(DOMAIN contracts) # 3 THEN {<<"exactly three contract configs", "">>}
     ELSE {})
    \cup {<<"contract config must be provided", n>> :
              n \in {ContractNameBridge, ContractNamePingPong, ContractNameToken}
                    \ DOMAIN contracts}
    \cup {<<"address must be set", n>> :
              n \in {m \in DOMAIN contracts : contracts[m].address = 0}}
    \cup {<<"abi must be set", n>> :
              n \in {m \in DOMAIN contracts : contracts[m].abi = <<>>}}

\* A validation that looks at the chain entries only.
validateChainsOnly(doc) == validateChainConfig(doc.chains)

\* part_000:245-257  App.validate: both validations, joined.
validate(doc) == validateChainConfig(doc.chains) \cup validateContractsConfig(doc.contracts)

\* part_000:207-215  loadConfig's error: unmarshal, normalise, validate.
loadConfig(doc) ==
    IF ~doc.yaml THEN "failed to unmarshal config"
    ELSE IF validate(normalizePrivateKeys(doc)) # {} THEN "invalid config"
    ELSE ErrNil

\* part_000:208-212  loadConfig unmarshals into configs.Values before it validates.
ValuesAfterLoad(old, doc) == IF doc.yaml THEN <<normalizePrivateKeys(doc)>> ELSE old

\* The entries of the shipped configuration, and ways an entry can be wrong.
GoodChain(n) ==
    [id |-> IF n = ChainNameRollupB THEN ChainIdB ELSE ChainIdA,
     rpcUrl |-> <<"u">>, pk |-> <<"0", "x", "k">>]
GoodContract == [address |-> 1, abi |-> <<"a">>]

ChainSamples ==
    {GoodChain(ChainNameRollupA),
     [GoodChain(ChainNameRollupA) EXCEPT !.id = 0],
     [GoodChain(ChainNameRollupA) EXCEPT !.rpcUrl = <<>>],
     [GoodChain(ChainNameRollupA) EXCEPT !.pk = <<>>],
     [GoodChain(ChainNameRollupA) EXCEPT !.pk = <<"0", "x">>],
     [GoodChain(ChainNameRollupA) EXCEPT !.pk = <<"0", "X", "k">>],
     [GoodChain(ChainNameRollupA) EXCEPT !.pk = <<"0", "x", "0", "x", "k">>],
     [GoodChain(ChainNameRollupA) EXCEPT !.pk = <<"0", "X", "0", "x", "k">>]}

ContractSamples ==
    {GoodContract, [GoodContract EXCEPT !.address = 0], [GoodContract EXCEPT !.abi = <<>>]}

ChainSections ==
    {[n \in dom |-> IF n = ChainNameRollupA THEN c ELSE GoodChain(n)] :
        dom \in {{ChainNameRollupA, ChainNameRollupB}, {ChainNameRollupA},
                 {ChainNameRollupA, ChainNameRollupB, "rollup-c"}},
        c \in ChainSamples}

ContractSections ==
    {[n \in dom |-> IF n = ContractNameBridge THEN c ELSE GoodContract] :
        dom \in {{ContractNameBridge, ContractNamePingPong, ContractNameToken},
                 {ContractNameBridge, ContractNamePingPong}},
        c \in ContractSamples}

\* The shipped configuration: two rollups, three contracts.
GoodDoc ==
    [yaml |-> TRUE,
     chains |-> [n \in {ChainNameRollupA, ChainNameRollupB} |-> GoodChain(n)],
     contracts |-> [n \in {ContractNameBridge, ContractNamePingPong, ContractNameToken}
                      |-> GoodContract]]

\* The documents a source can hold: one that does not parse, and the parsed ones.
Docs ==
    {[GoodDoc EXCEPT !.yaml = FALSE]}
    \cup {[yaml |-> TRUE, chains |-> ch, contracts |-> co] :
             ch \in ChainSections, co \in ContractSections}

\* What the configuration steps leave alone.
ConfigFrame ==
    UNCHANGED <<ctxDone, inputVars, buildVars, msgVars, submitVars, pollVars, accountConn,
                sessionVars, unitVars, envSet, fileReadable, externalDoc, embeddedDoc>>

\* part_000:186  os.LookupEnv(configPathEnvVar)
LookupEnv ==
    /\ cfgPc = "init"
    /\ cfgPc' = IF envSet THEN "readFile" ELSE "loadEmbedded"
    /\ UNCHANGED <<cfgSource, Values>>
    /\ ConfigFrame

\* part_000:187-193  CONFIG_PATH is not set: the embedded document or a panic.
LoadEmbedded ==
    /\ cfgPc = "loadEmbedded"
    /\ Values' = ValuesAfterLoad(Values, embeddedDoc)
    /\ IF loadConfig(embeddedDoc) = ErrNil
       THEN cfgPc' = "loaded" /\ cfgSource' = <<"embedded">>
       ELSE cfgPc' = "panicked" /\ UNCHANGED cfgSource
    /\ ConfigFrame

\* part_000:196-199  os.ReadFile(configPath); a read error panics.
ReadFile ==
    /\ cfgPc = "readFile"
    /\ cfgPc' = IF fileReadable THEN "loadExternal" ELSE "panicked"
    /\ UNCHANGED <<cfgSource, Values>>
    /\ ConfigFrame

\* part_000:201-204  loadConfig(data); an error is logged as a fall-back and panics.
LoadExternal ==
    /\ cfgPc = "loadExternal"
    /\ Values' = ValuesAfterLoad(Values, externalDoc)
    /\ IF loadConfig(externalDoc) = ErrNil
       THEN cfgPc' = "loaded" /\ cfgSource' = <<"external">>
       ELSE cfgPc' = "panicked" /\ UNCHANGED cfgSource
    /\ ConfigFrame

----------------------------------------------------------------------------
\* GenerateRandomSessionID (transactions.go:120-129).  A big.Int is a sign and
\* a magnitude of IDBytes big-endian bytes.

\* transactions.go:122  max = 1 << SessionBits
SessionBits == 63

\* crypto/rand.Int: the bytes read for max, k = (bitLen + 7) / 8.
IDBytes == (SessionBits + 7) \div 8

\* crypto/rand.Int: the bits kept of the first byte, b = bitLen % 8, or 8 if that is 0.
TopBits == IF SessionBits % 8 = 0 THEN 8 ELSE SessionBits % 8

\* max as big-endian bytes.
MaxBytes == [i \in 1..IDBytes |-> IF i = 1 THEN 2 ^ TopBits ELSE 0]

\* Bytes the entropy source is let to deliver.
SampleBytes == {0, 127, 128, 255}

\* a < b for magnitudes of the same length.
BytesLess(a, b) ==
    \E i \in 1..Len(a) : a[i] < b[i] /\ \A j \in 1..(i - 1) : a[j] = b[j]

\* crypto/rand.Int: the first byte is masked to TopBits bits, the rest taken as read.
RandInt(bytes) ==
    [neg |-> FALSE,
     abs |-> [i \in 1..IDBytes |-> IF i = 1 THEN bytes[1] % (2 ^ TopBits) ELSE bytes[i]]]

\* logger.Fatal returns to its caller.
AfterFatalReturns == "returned"

\* part_001:68-71  logger.Fatal is log.Fatalf: the process exits.
AfterFatal == "exited"

GenerateRandomSessionID ==
    /\ sessionPc = "idle"
    /\ \/ /\ sessionEntropy' = "error"
          /\ sessionPc' = AfterFatal
          /\ sessionID' = <<>>
       \/ \E r \in [1..IDBytes -> SampleBytes] :
             /\ sessionEntropy' = "ok"
             /\ IF BytesLess(RandInt(r).abs, MaxBytes)
                THEN sessionPc' = "returned" /\ sessionID' = <<RandInt(r)>>
                ELSE UNCHANGED <<sessionPc, sessionID>>
    /\ UNCHANGED <<ctxDone, inputVars, buildVars, msgVars, submitVars, pollVars, accountConn,
                   cfgVars, unitVars>>

----------------------------------------------------------------------------
\* The account's client (part_003:49-76, 113-118).

\* part_003:113-118  Account.Close closes the client NewRollupAccount dialed.
AccountClose(l) ==
    /\ accountConn[l]
    /\ accountConn' = [accountConn EXCEPT ![l] = FALSE]
    /\ UNCHANGED <<ctxDone, inputVars, buildVars, msgVars, submitVars, pollVars, cfgVars,
                   sessionVars, unitVars>>

\* DistributeEth has not been called.
DistIdle ==
    /\ recipients = 0
    /\ distPc = "idle"
    /\ distFetches = 0
    /\ distN0 = <<>>
    /\ distNonce = 0
    /\ distIdx = 0
    /\ distSent = <<>>
    /\ distReceipts = <<>>
    /\ distErr = "none"

\* None of the helpers that run beside the bundle flow has been called.
\* No calldata has been packed; the two test accounts have their own addresses.
NotPacked ==
    /\ address = [l \in Legs |-> IF l = "A" THEN "addrA" ELSE "addrB"]
    /\ calldata = [l \in Legs |-> <<>>]

\* No stress scenario has planned a nonce.
NotPlanned ==
    /\ planTest = "none"
    /\ numOfTxs = 0
    /\ planN0 = [l \in Legs |-> 0]
    /\ planI = 0
    /\ planned = [l \in Legs |-> <<>>]

\* No pack function has been called.
PackIdle ==
    /\ packV = <<>>
    /\ packC = <<>>
    /\ packFn = "none"
    /\ packPc = "idle"
    /\ packOut = <<>>

UnitsIdle == DistIdle /\ NotPacked /\ NotPlanned /\ PackIdle

\* The process has started: the embedded configuration is loaded, the two test
\* accounts are constructed (NewRollupAccount has dialed their clients), no
\* session id has been drawn.
ProcessUp ==
    /\ envSet = FALSE
    /\ fileReadable = FALSE
    /\ externalDoc = GoodDoc
    /\ embeddedDoc = GoodDoc
    /\ cfgPc = "loaded"
    /\ cfgSource = <<"embedded">>
    /\ Values = <<normalizePrivateKeys(GoodDoc)>>
    /\ accountConn = [l \in Legs |-> TRUE]
    /\ sessionPc = "idle"
    /\ sessionEntropy = "none"
    /\ sessionID = <<>>

\* The process has started and none of the helpers has been called.
Started == ProcessUp /\ UnitsIdle

----------------------------------------------------------------------------
\* Construction: nothing has been called yet, the context is live.

\* No builder has been called.
NotBuilt ==
    /\ buildPc = [l \in Legs |-> "idle"]
    /\ buildErr = [l \in Legs |-> "none"]
    /\ buildCall = [l \in Legs |-> "none"]
    /\ nonceArg = [l \in Legs |-> <<>>]
    /\ nonceQueries = [l \in Legs |-> 0]
    /\ signed = [l \in Legs |-> <<>>]
    /\ signedTx = [l \in Legs |-> <<>>]
    /\ txOut = [l \in Legs |-> <<>>]
    /\ directSends = {}

\* No bundle has been built, submitted or polled for; the context is live.
Constructed ==
    /\ ctxDone = FALSE
    /\ bundle = <<>>
    /\ encoded = <<>>
    /\ encodeLog = <<>>
    /\ decoded = <<>>
    /\ submitPc = "idle"
    /\ submitErr = "none"
    /\ rpcCalls = 0
    /\ rpcLog = <<>>
    /\ sendAnswer = "none"
    /\ openConns = 0
    /\ pollPc = [l \in Legs |-> "idle"]
    /\ retryCount = [l \in Legs |-> 0]
    /\ notFoundSeen = [l \in Legs |-> 0]
    /\ pollRollup = [l \in Legs |-> <<>>]
    /\ pendingCount = [l \in Legs |-> 0]
    /\ queries = [l \in Legs |-> 0]
    /\ receiptFetches = [l \in Legs |-> 0]
    /\ lastAnswer = [l \in Legs |-> "none"]
    /\ found = [l \in Legs |-> FALSE]
    /\ waitLog = [l \in Legs |-> <<>>]
    /\ pollConn = [l \in Legs |-> FALSE]
    /\ receiptAnswer = [l \in Legs |-> "none"]
    /\ outcome = [l \in Legs |-> NoOutcome]

\* The test accounts: rollup A and rollup B of the configuration, fresh accounts.
Init ==
    /\ rollupChainID = [l \in Legs |-> IF l = "A" THEN ChainIdA ELSE ChainIdB]
    /\ pendingNonce = [l \in Legs |-> 0]
    /\ parallel = FALSE
    /\ scenario = "paired"
    /\ NotBuilt
    /\ Constructed
    /\ Started

\* The caller cancels its context (t.Context() ends, or any caller's cancel()).
Cancel ==
    /\ ~ctxDone
    /\ ctxDone' = TRUE
    /\ UNCHANGED <<inputVars, procVars, buildVars, msgVars, submitVars, pollVars>>

----------------------------------------------------------------------------
\* CreateTransaction (transactions.go:29-67) and CreateTransactionWithNonce
\* (transactions.go:69-103), one call per leg, A before B.

\* The scenarios build leg A, require.NoError, then build leg B.
CanBuild(l) == IF l = "A" THEN TRUE ELSE buildPc["A"] = "ok"

\* What PendingNonceAt can return: it is handed GetNonceCtx.
NonceAnswers == IF CtxIsDone(GetNonceCtx) THEN {"ctxErr"} ELSE {"nonce", "rpcErr"}

\* GetNonce on a connection of its own: the account's client plays no part.
NonceAnswersOnOwnConn(open) == NonceAnswers

\* part_003:99-101  GetNonce asks ac.client, the client NewRollupAccount dialed: a
\* closed client answers with an error.
NonceAnswersOn(open) == IF open THEN NonceAnswers ELSE NonceAnswers \ {"nonce"}

\* A signer fixed to chain 1, whatever the account's rollup.
SignerChainIDMainnet(chainID) == 1

\* transactions.go:55, 91  types.NewLondonSigner(ac.GetRollup().ChainID())
SignerChainID(chainID) == chainID

\* part_003:56-76  NewRollupAccount returns an account only with a parsed key.
HasPrivateKey(l) == TRUE

\* What sign and marshal can do; the key check comes first
\* (transactions.go:35-39, 55-65; 72-76, 91-101).
SignError(l, s) ==
    IF ~HasPrivateKey(l) THEN ErrKeyNil
    ELSE IF s = "signErr" THEN ErrSign
    ELSE IF s = "marshalErr" THEN ErrMarshalTx
    ELSE ErrNil

\* A builder that hands back the signed transaction along with a marshal error.
ReturnedTxPartial(err, tx) == IF err \in {ErrNil, ErrMarshalTx} THEN <<tx>> ELSE <<>>

\* transactions.go:32, 38, 58, 64, 66  return nil, nil, err on every error, the
\* signed transaction only with a nil error.
ReturnedTx(err, tx) == IF err = ErrNil THEN <<tx>> ELSE <<>>

\* transactions.go:42-55  the DynamicFeeTx of an account, signed for the
\* account's rollup by NewLondonSigner(ac.GetRollup().ChainID()).
SignedTransaction(chainID, nonce) ==
    [type |-> "DynamicFeeTx", chainId |-> chainID,
     signerChainId |-> SignerChainID(chainID), nonce |-> nonce]

\* transactions.go:62  signedTransaction.MarshalBinary(): the type byte 0x02, then
\* the fields; of the fields the model keeps the chain id and the nonce.
MarshalBinary(tx) == <<2>> \o Varint(tx.chainId) \o Varint(tx.nonce)

\* A builder that ignores its nonce argument and signs with the chain's nonce.
NonceFromChain(l, n) == pendingNonce[l]

\* transactions.go:81  Nonce: nonce, // use the nonce provided
NonceProvided(l, n) == n

\* A bridge flow that sends leg A itself, as the single-chain helpers do.
BridgeSendsLegA(l) == l = "A"

\* part_002:59-92, 152-180  between building a leg and building the bundle the
\* bridge flows make no SendTransaction call.
BridgeSendsLeg(l) == FALSE

\* The builder returns for leg l: err is its error, nonce the nonce it signs with.
BuildReturn(l, err, nonce) ==
    /\ buildErr' = [buildErr EXCEPT ![l] = err]
    /\ buildPc' = [buildPc EXCEPT ![l] = IF err = ErrNil THEN "ok" ELSE "err"]
    /\ signed' = [signed EXCEPT ![l] =
                     IF err \in {ErrNil, ErrMarshalTx}
                     THEN <<SignedTransaction(rollupChainID[l], nonce)>> ELSE <<>>]
    /\ signedTx' = [signedTx EXCEPT ![l] =
                       IF err = ErrNil
                       THEN MarshalBinary(SignedTransaction(rollupChainID[l], nonce))
                       ELSE <<>>]
    /\ txOut' = [txOut EXCEPT ![l] =
                    ReturnedTx(err, SignedTransaction(rollupChainID[l], nonce))]
    /\ directSends' = IF err = ErrNil /\ BridgeSendsLeg(l)
                      THEN directSends \cup {l} ELSE directSends

\* transactions.go:30  the call enters ac.GetNonce, which blocks in PendingNonceAt.
BuildStart(l) ==
    /\ buildPc[l] = "idle"
    /\ CanBuild(l)
    /\ buildPc' = [buildPc EXCEPT ![l] = "nonce"]
    /\ buildCall' = [buildCall EXCEPT ![l] = "CreateTransaction"]
    /\ nonceQueries' = [nonceQueries EXCEPT ![l] = @ + 1]
    /\ UNCHANGED <<ctxDone, inputVars, procVars, buildErr, nonceArg, signed, signedTx, txOut,
                   directSends, msgVars, submitVars, pollVars>>

\* transactions.go:30-66  the nonce answer arrives; signing and MarshalBinary follow.
BuildFinish(l) ==
    /\ buildPc[l] = "nonce"
    /\ \E a \in NonceAnswersOn(accountConn[l]), s \in {"ok", "signErr", "marshalErr"} :
          LET err == IF a # "nonce" THEN ErrGetNonce ELSE SignError(l, s)
          IN  BuildReturn(l, err, pendingNonce[l])
    /\ UNCHANGED <<ctxDone, inputVars, procVars, buildCall, nonceArg, nonceQueries, msgVars,
                   submitVars, pollVars>>

\* transactions.go:69-103  CreateTransactionWithNonce(ctx, tx, ac, n): no query,
\* the transaction is signed and marshalled at once.
BuildWithNonce(l, n) ==
    /\ buildPc[l] = "idle"
    /\ CanBuild(l)
    /\ buildCall' = [buildCall EXCEPT ![l] = "CreateTransactionWithNonce"]
    /\ nonceArg' = [nonceArg EXCEPT ![l] = <<n>>]
    /\ \E s \in {"ok", "signErr", "marshalErr"} :
          BuildReturn(l, SignError(l, s), NonceProvided(l, n))
    /\ UNCHANGED <<ctxDone, inputVars, procVars, nonceQueries, msgVars, submitVars, pollVars>>

----------------------------------------------------------------------------
\* CreateCrossTxRequestMsg (cross_tx.go:17-44).

\* big.Int.Uint64() (cross_tx.go:21, 25): the low 64 bits of the magnitude; the
\* sign is dropped.  Every id of the model is below 2^64.
Uint64(x) == IF x < 0 THEN -x ELSE x

\* cross_tx.go:20-27  one TransactionRequest: the account's chain id, one payload.
TransactionRequest(chainID, signedTxBytes) ==
    [chainId |-> Uint64(chainID), transaction |-> <<signedTxBytes>>]

\* A message with the two legs in the reverse order.
CrossTxRequestMsgReversed(chainID1, chainID2, signedTx1, signedTx2) ==
    [senderId |-> "client",
     requests |-> << TransactionRequest(chainID2, signedTx2),
                     TransactionRequest(chainID1, signedTx1) >>]

\* cross_tx.go:18-36  senderId "client", ac1's leg first, ac2's leg second.
CrossTxRequestMsg(chainID1, chainID2, signedTx1, signedTx2) ==
    [senderId |-> "client",
     requests |-> << TransactionRequest(chainID1, signedTx1),
                     TransactionRequest(chainID2, signedTx2) >>]

\* An encoder that returns the XTRequest without its Message envelope.
EncodedRequestOnly(msg) == MarshalXTRequest(msg.requests)

\* cross_tx.go:38-43  encodedMsg, err := proto.Marshal(spMsg); return encodedMsg, nil
EncodedMsg(msg) == Marshal(msg)

\* A call that empties the slices it was handed.
SliceAfterCallCleared(b) == <<>>

\* cross_tx.go:22, 26  Transaction: [][]byte{signedTx}: the message refers to the
\* caller's slice and proto.Marshal reads it; nothing writes to it.
SliceAfterCall(b) == b

\* One call, allowed while fewer than calls have been made on these inputs.
CreateCrossTxRequestMsgCall(calls) ==
    /\ Len(encodeLog) < calls
    /\ \A l \in Legs : buildPc[l] = "ok"
    /\ LET msg == CrossTxRequestMsg(rollupChainID["A"], rollupChainID["B"],
                                    signedTx["A"], signedTx["B"])
       IN  /\ bundle' = <<msg>>
           /\ encoded' = EncodedMsg(msg)
           /\ encodeLog' = Append(encodeLog,
                                  [chainIDs |-> rollupChainID, signedTxs |-> signedTx,
                                   out |-> EncodedMsg(msg)])
    /\ signedTx' = [l \in Legs |-> SliceAfterCall(signedTx[l])]
    /\ UNCHANGED <<ctxDone, inputVars, procVars, buildPc, buildErr, buildCall, nonceArg,
                   nonceQueries, signed, txOut, directSends, decoded, submitVars, pollVars>>

\* The bridge flows build one message per bundle (part_002:92, 184).
CreateCrossTxRequestMsg == CreateCrossTxRequestMsgCall(1)

\* The receiver of the bytes decodes them.
Decode ==
    /\ bundle # <<>>
    /\ decoded = <<>>
    /\ decoded' = <<Unmarshal(encoded)>>
    /\ UNCHANGED <<ctxDone, inputVars, procVars, buildVars, bundle, encoded, encodeLog, submitVars,
                   pollVars>>

----------------------------------------------------------------------------
\* SendCrossTxRequestMsg (cross_tx.go:46-60).

\* What CallContext can return: it is handed SendCallCtx.
SendAnswers == IF CtxIsDone(SendCallCtx) THEN {"ctxErr"} ELSE {"null", "nonNull", "rpcErr"}

\* cross_tx.go:53  the arguments after the method name: the hex text of the payload.
SendParams(encodedPayload) == <<HexEncode(encodedPayload)>>

\* A call error that is dropped.
SendResultSwallowed(a) == ErrNil

\* cross_tx.go:53-59  CallContext's result argument is nil, so a non-null result is
\* dropped and is no error; any error of the call is returned wrapped.
SendResult(a) == IF a \in {"null", "nonNull"} THEN ErrNil ELSE ErrRPCCall

\* A failed call that is tried again.
AfterCallRetry(a) == IF a \in {"null", "nonNull"} THEN "done" ELSE "idle"

\* cross_tx.go:54-59  after the one call the function returns, whatever the answer.
AfterCall(a) == "done"

\* A Close that runs on the success path only.
ConnsAfterCallLeak(a, n) == IF a \in {"null", "nonNull"} THEN n - 1 ELSE n

\* cross_tx.go:51  defer l1Client.Close()
ConnsAfterCall(a, n) == n - 1

\* cross_tx.go:47-53  rpc.Dial, then the one CallContext is issued.
SendDial ==
    /\ submitPc = "idle"
    /\ bundle # <<>>
    /\ \E d \in {"ok", "fail"} :
          IF d = "ok"
          THEN /\ submitPc' = "call"
               /\ openConns' = openConns + 1
               /\ rpcCalls' = rpcCalls + 1
               /\ rpcLog' = Append(rpcLog, [method |-> sendTxRPCMethod,
                                            params |-> SendParams(encoded)])
               /\ UNCHANGED submitErr
          ELSE /\ submitPc' = "done"
               /\ submitErr' = ErrDialRPC
               /\ UNCHANGED <<openConns, rpcCalls, rpcLog>>
    /\ UNCHANGED <<ctxDone, inputVars, procVars, buildVars, msgVars, sendAnswer, pollVars>>

\* cross_tx.go:53-59  the call returns; the deferred Close runs.
SendFinish ==
    /\ submitPc = "call"
    /\ \E a \in SendAnswers :
          /\ sendAnswer' = a
          /\ submitErr' = SendResult(a)
          /\ submitPc' = AfterCall(a)
          /\ openConns' = ConnsAfterCall(a, openConns)
    /\ UNCHANGED <<ctxDone, inputVars, procVars, buildVars, msgVars, rpcCalls, rpcLog, pollVars>>

----------------------------------------------------------------------------
\* GetTransactionDetails (transactions.go:133-196), one call per leg.

\* The scenarios poll leg A once the bundle is accepted, then leg B; the
\* parallel ones (uncorelatedTx_test.go:181-209) start both polls at once.
CanPoll(l) ==
    IF l = "A" \/ parallel THEN submitPc = "done" /\ submitErr = ErrNil
    ELSE pollPc["A"] = "done"

\* The rollup a scenario hands to GetTransactionDetails for leg l.  Where the
\* scenario keeps a list per rollup it is the leg's own
\* (uncorelatedTx_test.go:191-209, part_005:76-84, 855-876); where it keeps
\* the two legs of a bundle in one list it is the rollup of the first leg
\* (part_005:349-373) or of the second (part_005:446-468) for both.
PollTarget(sc, l) ==
    CASE sc = "listOnFirst" -> "A"
      [] sc = "listOnSecond" -> "B"
      [] OTHER -> l

\* One retry counter that every call counts on.
RetryCounterShared(l) == "A"

\* transactions.go:148  retryCount := 0 is a local of the call: each call
\* counts on its own.
RetryCounterOf(l) == l

\* A retry test that lets one more not-found answer through.
RetryBudgetLate(rc) == rc > maxRetries + 1

\* transactions.go:159  if retryCount > maxRetries
RetryBudgetExceeded(rc) == rc > maxRetries

\* A pending branch that falls through to the receipt fetch.
AfterPendingFallThrough == "receipt"

\* transactions.go:173-183  a pending answer leads to the select of the pending wait.
AfterPending == "waitPending"

\* A not-found return that also hands back a receipt.
NotFoundReturnWithReceipt == Returned(FALSE, "failed", ErrNotFoundAfterRetries, maxRetries)

\* transactions.go:160  return nil, nil, fmt.Errorf("... not found after %d retries ...", maxRetries, ...)
NotFoundReturn == Returned(FALSE, "nil", ErrNotFoundAfterRetries, maxRetries)

\* A pending branch that gives up after PendingBudget pending answers.
PendingGivesUpAfterBudget(n) == n > PendingBudget

\* transactions.go:173-183  the pending branch has no counter and no bound.
PendingGivesUp(n) == FALSE

\* A receipt error that is retried instead of returned.
AfterReceiptErrorRetry == "query"

\* transactions.go:187-189  a receipt error returns at once.
AfterReceiptError == "done"

\* A query error that is dropped: the call returns no error at all.
GetTxErrorSwallowed == Returned(FALSE, "nil", ErrNil, 0)

\* transactions.go:170  return nil, nil, fmt.Errorf("failed to get transaction by hash %s: %w", ...)
GetTxErrorReturn == Returned(FALSE, "nil", ErrGetTx, 0)

\* What TransactionByHash can return to leg l: it is handed PollQueryCtx.
TxByHashAnswers(l) ==
    IF CtxIsDone(PollQueryCtx) THEN {"ctxErr"}
    ELSE {"notFound", "mined", "rpcErr"}
         \cup (IF pendingCount[l] < MaxPending THEN {"pending"} ELSE {})

\* What TransactionReceipt can return: it is handed ReceiptCtx.
ReceiptAnswers ==
    IF CtxIsDone(ReceiptCtx) THEN {"ctxErr"}
    ELSE {"success", "failed", "notFound", "rpcErr"}

\* The call returns r; the deferred client.Close() runs (transactions.go:139).
PollReturn(l, r) ==
    /\ pollPc' = [pollPc EXCEPT ![l] = "done"]
    /\ outcome' = [outcome EXCEPT ![l] = r]
    /\ pollConn' = [pollConn EXCEPT ![l] = FALSE]

\* transactions.go:135-149  ethclient.DialContext, then the locals are set.
PollDial(l) ==
    /\ pollPc[l] = "idle"
    /\ CanPoll(l)
    /\ \E d \in {"ok", "fail"} :
          IF d = "ok"
          THEN /\ pollPc' = [pollPc EXCEPT ![l] = "query"]
               /\ pollConn' = [pollConn EXCEPT ![l] = TRUE]
               /\ UNCHANGED outcome
          ELSE PollReturn(l, Returned(FALSE, "nil", ErrConnect, 0))
    /\ pollRollup' = [pollRollup EXCEPT ![l] = <<rollupChainID[PollTarget(scenario, l)]>>]
    /\ UNCHANGED <<ctxDone, inputVars, procVars, buildVars, msgVars, submitVars, retryCount, notFoundSeen,
                   pendingCount, queries, receiptFetches, lastAnswer, found, waitLog,
                   receiptAnswer>>

\* transactions.go:154  client.TransactionByHash is called.
PollQuery(l) ==
    /\ pollPc[l] = "query"
    /\ pollPc' = [pollPc EXCEPT ![l] = "inflight"]
    /\ queries' = [queries EXCEPT ![l] = @ + 1]
    /\ UNCHANGED <<ctxDone, inputVars, procVars, buildVars, msgVars, submitVars, pollRollup, retryCount, notFoundSeen,
                   pendingCount, receiptFetches, lastAnswer, found, waitLog, pollConn,
                   receiptAnswer, outcome>>

\* transactions.go:155-162  errors.Is(err, ethereum.NotFound)
PollNotFound(l) ==
    /\ retryCount' = [retryCount EXCEPT ![RetryCounterOf(l)] = @ + 1]
    /\ notFoundSeen' = [notFoundSeen EXCEPT ![l] = @ + 1]
    /\ IF RetryBudgetExceeded(retryCount'[RetryCounterOf(l)])
       THEN PollReturn(l, NotFoundReturn)
       ELSE /\ pollPc' = [pollPc EXCEPT ![l] = "waitNotFound"]
            /\ UNCHANGED <<pollConn, outcome>>
    /\ UNCHANGED <<pendingCount, found>>

\* A pending answer that starts the not-found count afresh.
RetryCountAfterPendingReset(n) == 0

\* transactions.go:173-183  the pending branch does not touch retryCount.
RetryCountAfterPending(n) == n

\* transactions.go:173-175  isPending
PollPending(l) ==
    /\ pendingCount' = [pendingCount EXCEPT ![l] = @ + 1]
    /\ found' = [found EXCEPT ![l] = TRUE]
    /\ IF PendingGivesUp(pendingCount'[l])
       THEN PollReturn(l, NotFoundReturn)
       ELSE /\ pollPc' = [pollPc EXCEPT ![l] = AfterPending]
            /\ UNCHANGED <<pollConn, outcome>>
    /\ retryCount' = [retryCount EXCEPT ![RetryCounterOf(l)] = RetryCountAfterPending(@)]
    /\ UNCHANGED notFoundSeen

\* transactions.go:148  retryInterval := 600 * time.Millisecond
retryInterval == 600

\* transactions.go:166  case <-time.After(retryInterval), after a not-found answer
NotFoundWaitInterval == retryInterval

\* A pending wait with an interval of its own.
PendingWaitIntervalOwn == retryInterval - 100

\* transactions.go:180  case <-time.After(retryInterval), after a pending answer
PendingWaitInterval == retryInterval

\* transactions.go:154-185  the answer to TransactionByHash is handled.
PollAnswer(l) ==
    /\ pollPc[l] = "inflight"
    /\ \E a \in TxByHashAnswers(l) :
          /\ lastAnswer' = [lastAnswer EXCEPT ![l] = a]
          /\ CASE a = "notFound" -> PollNotFound(l)
               [] a = "pending" -> PollPending(l)
               [] a = "mined" ->
                     /\ pollPc' = [pollPc EXCEPT ![l] = "receipt"]
                     /\ found' = [found EXCEPT ![l] = TRUE]
                     /\ UNCHANGED <<retryCount, notFoundSeen, pendingCount, pollConn, outcome>>
               [] OTHER ->
                     \* transactions.go:170
                     /\ PollReturn(l, GetTxErrorReturn)
                     /\ UNCHANGED <<retryCount, notFoundSeen, pendingCount, found>>
    /\ waitLog' = [waitLog EXCEPT ![l] =
                      CASE pollPc'[l] = "waitNotFound" -> Append(@, NotFoundWaitInterval)
                        [] pollPc'[l] = "waitPending" -> Append(@, PendingWaitInterval)
                        [] OTHER -> @]
    /\ UNCHANGED <<ctxDone, inputVars, procVars, buildVars, msgVars, submitVars, pollRollup, queries,
                   receiptFetches, receiptAnswer>>

\* transactions.go:166-167 and 180-181  case <-time.After(retryInterval): continue
PollWaitElapsed(l) ==
    /\ pollPc[l] \in {"waitNotFound", "waitPending"}
    /\ ~CtxIsDone(PollWaitCtx)
    /\ pollPc' = [pollPc EXCEPT ![l] = "query"]
    /\ UNCHANGED <<ctxDone, inputVars, procVars, buildVars, msgVars, submitVars, pollRollup, retryCount, notFoundSeen,
                   pendingCount, queries, receiptFetches, lastAnswer, found, waitLog,
                   pollConn, receiptAnswer, outcome>>

\* transactions.go:164-165 and 178-179  case <-ctx.Done(): return ...
PollWaitCancelled(l) ==
    /\ pollPc[l] \in {"waitNotFound", "waitPending"}
    /\ CtxIsDone(PollWaitCtx)
    /\ PollReturn(l, Returned(FALSE, "nil", ErrCancelled, 0))
    /\ UNCHANGED <<ctxDone, inputVars, procVars, buildVars, msgVars, submitVars, pollRollup, retryCount, notFoundSeen,
                   pendingCount, queries, receiptFetches, lastAnswer, found, waitLog,
                   receiptAnswer>>

\* transactions.go:186-194  client.TransactionReceipt, then the return.
PollReceipt(l) ==
    /\ pollPc[l] = "receipt"
    /\ receiptFetches' = [receiptFetches EXCEPT ![l] = @ + 1]
    /\ \E r \in ReceiptAnswers :
          /\ receiptAnswer' = [receiptAnswer EXCEPT ![l] = r]
          /\ IF r \in {"success", "failed"}
             THEN PollReturn(l, Returned(TRUE, r, ErrNil, 0))
             ELSE IF AfterReceiptError = "done"
                  THEN PollReturn(l, Returned(FALSE, "nil", ErrGetReceipt, 0))
                  ELSE /\ pollPc' = [pollPc EXCEPT ![l] = AfterReceiptError]
                       /\ UNCHANGED <<pollConn, outcome>>
    /\ UNCHANGED <<ctxDone, inputVars, procVars, buildVars, msgVars, submitVars, pollRollup, retryCount, notFoundSeen,
                   pendingCount, queries, lastAnswer, found, waitLog>>

----------------------------------------------------------------------------

Next ==
    \/ Cancel
    \/ \E l \in Legs : BuildStart(l)
    \/ \E l \in Legs : BuildFinish(l)
    \/ CreateCrossTxRequestMsg
    \/ SendDial
    \/ SendFinish
    \/ \E l \in Legs : PollDial(l)
    \/ \E l \in Legs : PollQuery(l)
    \/ \E l \in Legs : PollAnswer(l)
    \/ \E l \in Legs : PollWaitElapsed(l)
    \/ \E l \in Legs : PollWaitCancelled(l)
    \/ \E l \in Legs : PollReceipt(l)

Spec == Init /\ [][Next]_vars

----------------------------------------------------------------------------
\* The scenarios that poll the two legs in two goroutines
\* (uncorelatedTx_test.go:181-209): the same attempt, with both polls started
\* once the bundle is accepted and their steps interleaved in any order.

InitConcurrent ==
    /\ rollupChainID = [l \in Legs |-> IF l = "A" THEN ChainIdA ELSE ChainIdB]
    /\ pendingNonce = [l \in Legs |-> 0]
    /\ parallel = TRUE
    /\ scenario = "paired"
    /\ NotBuilt
    /\ Constructed
    /\ Started

SpecConcurrent == InitConcurrent /\ [][Next]_vars

----------------------------------------------------------------------------
\* DistributeEth (transactions.go:201-240).  The calls it makes are taken by
\* what they return: GetNonce a nonce or an error, CreateTransactionWithNonce a
\* transaction or an error, SendTransaction nil or an error, and
\* GetTransactionDetails a receipt (successful or failed) or an error.

ErrDistCreate == "failed to create transaction"
ErrDistSend == "failed to send transaction"
ErrDistReceipt == "failed to get transaction receipt"
ErrDistFailed == "transaction failed"

\* What DistributeEth leaves alone.
mainVars == <<ctxDone, inputVars, buildVars, msgVars, submitVars, pollVars, accountConn,
              cfgVars, sessionVars, calldataVars, planVars, packVars>>

\* transactions.go:240  return: with an error, or nil after the last recipient.
DistReturn(err) ==
    /\ distPc' = "done"
    /\ distErr' = err

\* The position after the nonce is in hand or a transfer is confirmed: the loop
\* goes to recipient idx, or ends (transactions.go:207, 239-240).
DistLoop(idx) ==
    IF idx < recipients
    THEN distPc' = "build" /\ UNCHANGED distErr
    ELSE DistReturn(ErrNil)

\* transactions.go:202  sponsor.GetNonce(ctx) is called.
DistributeStart ==
    /\ distPc = "idle"
    /\ distPc' = "nonce"
    /\ distFetches' = distFetches + 1
    /\ UNCHANGED <<mainVars, recipients, distN0, distNonce, distIdx, distSent, distReceipts,
                   distErr>>

\* transactions.go:202-205  the nonce arrives, or an error that is returned.
DistributeNonce ==
    /\ distPc = "nonce"
    /\ \/ /\ DistReturn(ErrGetNonce)
          /\ UNCHANGED <<distN0, distNonce>>
       \/ \E n \in 0..MaxNonce :
             /\ distN0' = <<n>>
             /\ distNonce' = n
             /\ DistLoop(distIdx)
    /\ UNCHANGED <<mainVars, recipients, distFetches, distIdx, distSent, distReceipts>>

\* transactions.go:218-221  CreateTransactionWithNonce(ctx, ..., sponsor, nonce)
DistributeBuild ==
    /\ distPc = "build"
    /\ \E s \in {"ok", "signErr", "marshalErr"} :
          IF SignError("A", s) = ErrNil
          THEN distPc' = "send" /\ UNCHANGED distErr
          ELSE DistReturn(ErrDistCreate)
    /\ UNCHANGED <<mainVars, recipients, distFetches, distN0, distNonce, distIdx, distSent,
                   distReceipts>>

\* transactions.go:222-225  SendTransaction(ctx, tx, ...) with the transfer to
\* recipient distIdx, signed with the local nonce.
DistributeSend ==
    /\ distPc = "send"
    /\ \E r \in {"ok", "err"} :
          /\ distSent' = Append(distSent, [to |-> distIdx, nonce |-> distNonce, result |-> r])
          /\ IF r = "ok"
             THEN distPc' = "poll" /\ UNCHANGED distErr
             ELSE DistReturn(ErrDistSend)
    /\ UNCHANGED <<mainVars, recipients, distFetches, distN0, distNonce, distIdx,
                   distReceipts>>

\* The nonce of the next transfer is the one just used.
NonceAfterTransferSame(n) == n

\* transactions.go:236  nonce++
NonceAfterTransfer(n) == n + 1

\* transactions.go:228-236  GetTransactionDetails, the receipt's status, nonce++.
DistributePoll ==
    /\ distPc = "poll"
    /\ \E r \in {"success", "failed", "err"} :
          /\ distReceipts' = Append(distReceipts, r)
          /\ CASE r = "err" ->
                     DistReturn(ErrDistReceipt) /\ UNCHANGED <<distNonce, distIdx>>
               [] r = "failed" ->
                     DistReturn(ErrDistFailed) /\ UNCHANGED <<distNonce, distIdx>>
               [] OTHER ->
                     /\ distNonce' = NonceAfterTransfer(distNonce)
                     /\ distIdx' = distIdx + 1
                     /\ DistLoop(distIdx + 1)
    /\ UNCHANGED <<mainVars, recipients, distFetches, distN0, distSent>>

InitDistribute ==
    /\ rollupChainID = [l \in Legs |-> IF l = "A" THEN ChainIdA ELSE ChainIdB]
    /\ pendingNonce = [l \in Legs |-> 0]
    /\ parallel = FALSE
    /\ scenario = "paired"
    /\ NotBuilt
    /\ Constructed
    /\ ProcessUp
    /\ recipients \in 0..MaxRecipients
    /\ distPc = "idle"
    /\ distFetches = 0
    /\ distN0 = <<>>
    /\ distNonce = 0
    /\ distIdx = 0
    /\ distSent = <<>>
    /\ distReceipts = <<>>
    /\ distErr = "none"
    /\ NotPacked
    /\ NotPlanned
    /\ PackIdle

NextDistribute ==
    \/ DistributeStart
    \/ DistributeNonce
    \/ DistributeBuild
    \/ DistributeSend
    \/ DistributePoll

SpecDistribute == InitDistribute /\ [][NextDistribute]_vars

----------------------------------------------------------------------------
\* The calldata of the two legs, as SendBridgeTx and SendBridgeTxWithNonce pack
\* it (part_002:32-71, 124-163): the session id is drawn first, then the send
\* leg of ac1 (leg A) and the receiveTokens leg of ac2 (leg B) are packed.

\* The addresses an account can have; the same key gives the same address on
\* both rollups.
Addresses == {"addrA", "addrB"}

\* part_002:36-44  bridgeABI.Pack("send", ...)
SendCalldata ==
    [method |-> "send",
     chainId |-> rollupChainID["B"],
     sender |-> address["A"],
     receiver |-> address["B"],
     sessionId |-> sessionID[1]]

\* part_002:65-71  bridgeABI.Pack("receiveTokens", ...)
ReceiveCalldata ==
    [method |-> "receiveTokens",
     chainId |-> rollupChainID["A"],
     sender |-> address["B"],
     receiver |-> address["B"],
     sessionId |-> sessionID[1]]

\* What the packing steps leave alone.
PackFrame ==
    UNCHANGED <<ctxDone, inputVars, buildVars, msgVars, submitVars, pollVars, accountConn,
                cfgVars, sessionVars, distVars, planVars, packVars, address>>

\* part_002:36-46  the send leg's calldata, once the session id is drawn.
PackSend ==
    /\ sessionPc = "returned"
    /\ calldata["A"] = <<>>
    /\ calldata' = [calldata EXCEPT !["A"] = <<SendCalldata>>]
    /\ PackFrame

\* part_002:65-73  the receiveTokens leg's calldata, after the send leg.
PackReceive ==
    /\ calldata["A"] # <<>>
    /\ calldata["B"] = <<>>
    /\ calldata' = [calldata EXCEPT !["B"] = <<ReceiveCalldata>>]
    /\ PackFrame

InitCalldata ==
    /\ rollupChainID = [l \in Legs |-> IF l = "A" THEN ChainIdA ELSE ChainIdB]
    /\ pendingNonce = [l \in Legs |-> 0]
    /\ parallel = FALSE
    /\ scenario = "paired"
    /\ NotBuilt
    /\ Constructed
    /\ ProcessUp
    /\ DistIdle
    /\ address \in [Legs -> Addresses]
    /\ calldata = [l \in Legs |-> <<>>]
    /\ NotPlanned
    /\ PackIdle

NextCalldata ==
    \/ GenerateRandomSessionID
    \/ PackSend
    \/ PackReceive

SpecCalldata == InitCalldata /\ [][NextCalldata]_vars

----------------------------------------------------------------------------
\* The nonces the stress scenarios plan (part_005:806-849, 920-953; the same
\* arithmetic at 326-365 and 419-451).  Leg A is TestAccountA on rollup A, leg B
\* TestAccountB on rollup B.

\* The state the helpers beside the bundle flow leave alone.
flowVars == <<ctxDone, inputVars, buildVars, msgVars, submitVars, pollVars, accountConn,
              cfgVars, sessionVars>>

\* part_005:823  totalNumOfTxs := numOfTxs / 2; part_005:930  i < numOfTxs
Iterations(test, n) == IF test = "AtoBAndBtoA" THEN n \div 2 ELSE n

\* part_005:828-831  aNonceAtoB, aNonceBtoA; part_005:933-934  selfNonceA,
\* bridgeNonceA: the nonces of account A in iteration i, in the order planned.
PlannedA(test, n0, i) == <<n0 + 2 * i, n0 + 2 * i + 1>>

\* Account B's bridge nonce in the mixed scenario, spaced like account A's.
BridgeNonceBEven(n0, i) == n0 + 2 * i

\* part_005:935  bridgeNonceB := nonceB + uint64(i)
BridgeNonceB(n0, i) == n0 + i

\* part_005:829-830  bNonceAtoB, bNonceBtoA; part_005:935  bridgeNonceB.
PlannedB(test, n0, i) ==
    IF test = "AtoBAndBtoA" THEN <<n0 + 2 * i, n0 + 2 * i + 1>>
    ELSE <<BridgeNonceB(n0, i)>>

\* One iteration of the scenario's loop.
PlanIteration ==
    /\ planI < Iterations(planTest, numOfTxs)
    /\ planned' = [l \in Legs |->
                      planned[l] \o (IF l = "A" THEN PlannedA(planTest, planN0[l], planI)
                                     ELSE PlannedB(planTest, planN0[l], planI))]
    /\ planI' = planI + 1
    /\ UNCHANGED <<flowVars, distVars, calldataVars, packVars, planTest, numOfTxs, planN0>>

InitPlan ==
    /\ rollupChainID = [l \in Legs |-> IF l = "A" THEN ChainIdA ELSE ChainIdB]
    /\ pendingNonce = [l \in Legs |-> 0]
    /\ parallel = FALSE
    /\ scenario = "paired"
    /\ NotBuilt
    /\ Constructed
    /\ ProcessUp
    /\ DistIdle
    /\ NotPacked
    /\ PackIdle
    /\ planTest \in {"AtoBAndBtoA", "NormalTxsMixWithCrossRollupTxs"}
    /\ numOfTxs \in 0..MaxTxs
    /\ planN0 \in [Legs -> 0..MaxNonce]
    /\ planI = 0
    /\ planned = [l \in Legs |-> <<>>]

NextPlan == PlanIteration

SpecPlan == InitPlan /\ [][NextPlan]_vars

----------------------------------------------------------------------------
\* PackAccountGasLimits and PackGasFees (internal/helpers/encodings.go:41-59).
\* A big.Int is its magnitude as IntBytes big-endian bytes; the arguments the
\* model draws are below 2^136, so no sum outgrows IntBytes.

\* encodings.go:43, 53  Lsh(_, 128): 128 bits are 16 bytes.
HalfBytes == 16

\* encodings.go:46, 56  var out [32]byte
OutBytes == 32

IntBytes == OutBytes + 1

Zeros(n) == [k \in 1..n |-> 0]

\* The big.Int whose byte 16 (from the right, counted from 0) is hi, whose bytes
\* 15..1 are all fill and whose lowest byte is lo.
BigInt(hi, fill, lo) ==
    Zeros(IntBytes - HalfBytes - 1) \o <<hi>> \o [k \in 1..(HalfBytes - 1) |-> fill] \o <<lo>>

\* The arguments the model passes: 0, 1, 255, 2^128 - 1, 2^128, 2^128 + 1, ...
BigSamples == {BigInt(hi, fill, lo) : hi \in {0, 1}, fill \in {0, 255}, lo \in {0, 1, 255}}

\* encodings.go:43  new(big.Int).Lsh(verificationGasLimit, 128)
Lsh128(x) == SubSeq(x, HalfBytes + 1, IntBytes) \o Zeros(HalfBytes)

\* The carry into byte k of x + y.
RECURSIVE CarryInto(_, _, _)
CarryInto(x, y, k) ==
    IF k >= IntBytes THEN 0
    ELSE (x[k + 1] + y[k + 1] + CarryInto(x, y, k + 1)) \div 256

\* encodings.go:44  packed.Add(packed, callGasLimit)
BigAdd(x, y) == [k \in 1..IntBytes |-> (x[k] + y[k] + CarryInto(x, y, k)) % 256]

\* encodings.go:47  packed.FillBytes(out[:]) panics when packed needs more
\* bytes than out has.
FillBytesPanics(x) == x[1] # 0

\* encodings.go:47  packed.FillBytes(out[:])
FillBytes(x) == SubSeq(x, IntBytes - OutBytes + 1, IntBytes)

\* encodings.go:41-48 and 51-59: the body the two functions share.
Pack(fn) ==
    /\ packPc = "idle"
    /\ packFn' = fn
    /\ LET packed == BigAdd(Lsh128(packV), packC)
       IN IF FillBytesPanics(packed)
          THEN packPc' = "panicked" /\ packOut' = <<>>
          ELSE packPc' = "returned" /\ packOut' = FillBytes(packed)
    /\ UNCHANGED <<flowVars, distVars, calldataVars, planVars, packV, packC>>

\* encodings.go:41-48
PackAccountGasLimits == Pack("PackAccountGasLimits")

\* encodings.go:51-59
PackGasFees == Pack("PackGasFees")

InitPack ==
    /\ rollupChainID = [l \in Legs |-> IF l = "A" THEN ChainIdA ELSE ChainIdB]
    /\ pendingNonce = [l \in Legs |-> 0]
    /\ parallel = FALSE
    /\ scenario = "paired"
    /\ NotBuilt
    /\ Constructed
    /\ ProcessUp
    /\ DistIdle
    /\ NotPacked
    /\ NotPlanned
    /\ packV \in BigSamples
    /\ packC \in BigSamples
    /\ packFn = "none"
    /\ packPc = "idle"
    /\ packOut = <<>>

NextPack == PackAccountGasLimits \/ PackGasFees

SpecPack == InitPack /\ [][NextPack]_vars

----------------------------------------------------------------------------
\* The life of the accounts' clients: the calls of Spec, and Account.Close.

NextConn ==
    \/ Next
    \/ \E l \in Legs : AccountClose(l)

SpecConn == Init /\ [][NextConn]_vars

----------------------------------------------------------------------------
\* Start-up of the process: the configs package's init().

InitConfig ==
    /\ rollupChainID = [l \in Legs |-> IF l = "A" THEN ChainIdA ELSE ChainIdB]
    /\ pendingNonce = [l \in Legs |-> 0]
    /\ parallel = FALSE
    /\ scenario = "paired"
    /\ NotBuilt
    /\ Constructed
    /\ envSet \in BOOLEAN
    /\ fileReadable \in BOOLEAN
    /\ externalDoc \in Docs
    /\ embeddedDoc \in Docs
    /\ cfgPc = "init"
    /\ cfgSource = <<>>
    /\ Values = <<>>
    /\ accountConn = [l \in Legs |-> FALSE]
    /\ sessionPc = "idle"
    /\ sessionEntropy = "none"
    /\ sessionID = <<>>
    /\ UnitsIdle

NextConfig ==
    \/ LookupEnv
    \/ LoadEmbedded
    \/ ReadFile
    \/ LoadExternal

SpecConfig == InitConfig /\ [][NextConfig]_vars

----------------------------------------------------------------------------
\* Drawing a session id.

NextSession == GenerateRandomSessionID

SpecSession == Init /\ [][NextSession]_vars

----------------------------------------------------------------------------
\* The stress scenarios (part_005): a bundle is built by SendBridgeTxWithNonce
\* with the accounts' pending nonces, submitted, and its two legs are polled
\* from the lists the scenario sorted them into.

\* The ways the scenarios sort the two legs of a bundle into lists.
Scenarios == {"paired", "listOnFirst", "listOnSecond"}

InitStress ==
    /\ rollupChainID = [l \in Legs |-> IF l = "A" THEN ChainIdA ELSE ChainIdB]
    /\ pendingNonce = [l \in Legs |-> 0]
    /\ parallel = FALSE
    /\ scenario \in Scenarios
    /\ NotBuilt
    /\ Constructed
    /\ Started

NextStress ==
    \/ Cancel
    \/ \E l \in Legs : BuildWithNonce(l, pendingNonce[l])
    \/ CreateCrossTxRequestMsg
    \/ SendDial
    \/ SendFinish
    \/ \E l \in Legs : PollDial(l)
    \/ \E l \in Legs : PollQuery(l)
    \/ \E l \in Legs : PollAnswer(l)
    \/ \E l \in Legs : PollWaitElapsed(l)
    \/ \E l \in Legs : PollWaitCancelled(l)
    \/ \E l \in Legs : PollReceipt(l)

SpecStress == InitStress /\ [][NextStress]_vars

----------------------------------------------------------------------------
\* The bridge flows up to the submission (part_002:21-104, 110-196): each leg is
\* built by CreateTransaction or, with a nonce of the caller's, by
\* CreateTransactionWithNonce; each account is on either rollup and the
\* accounts' pending nonces are any.

InitBridge ==
    /\ rollupChainID \in [Legs -> {ChainIdA, ChainIdB}]
    /\ pendingNonce \in [Legs -> 0..MaxNonce]
    /\ parallel = FALSE
    /\ scenario = "paired"
    /\ NotBuilt
    /\ Constructed
    /\ Started

NextBridge ==
    \/ Cancel
    \/ \E l \in Legs : BuildStart(l)
    \/ \E l \in Legs : BuildFinish(l)
    \/ \E l \in Legs, n \in 0..MaxNonce : BuildWithNonce(l, n)
    \/ CreateCrossTxRequestMsg
    \/ SendDial
    \/ SendFinish

SpecBridge == InitBridge /\ [][NextBridge]_vars

----------------------------------------------------------------------------
\* CreateCrossTxRequestMsg on its own: the caller holds two accounts and two
\* signed transactions, each signed for some rollup that need not be the
\* account's; a receiver decodes what the encoder returned.

\* The chain ids an account's rollup is given: rollup.New takes any big.Int and
\* the configuration rejects only 0 (part_000:272).
EncodeChainIDs == {-ChainIdA, 1, ChainIdA, ChainIdB}

\* The signed transactions a caller may hold.
SignedInputs == {SignedTransaction(c, n) : c \in {ChainIdA, ChainIdB}, n \in 0..MaxNonce}

InitEncode ==
    /\ rollupChainID \in [Legs -> EncodeChainIDs]
    /\ pendingNonce = [l \in Legs |-> 0]
    /\ parallel = FALSE
    /\ scenario = "paired"
    /\ \E txs \in [Legs -> SignedInputs] :
          /\ signed = [l \in Legs |-> <<txs[l]>>]
          /\ signedTx = [l \in Legs |-> MarshalBinary(txs[l])]
          /\ txOut = [l \in Legs |-> <<txs[l]>>]
          /\ nonceArg = [l \in Legs |-> <<txs[l].nonce>>]
    /\ buildPc = [l \in Legs |-> "ok"]
    /\ buildErr = [l \in Legs |-> ErrNil]
    /\ buildCall = [l \in Legs |-> "CreateTransactionWithNonce"]
    /\ nonceQueries = [l \in Legs |-> 0]
    /\ directSends = {}
    /\ Constructed
    /\ Started

NextEncode ==
    \/ CreateCrossTxRequestMsgCall(MaxEncodeCalls)
    \/ Decode

SpecEncode == InitEncode /\ [][NextEncode]_vars

----------------------------------------------------------------------------
\* Vocabulary of the properties.

Waits == {"waitNotFound", "waitPending"}

\* TransactionByHash calls of leg l that have been answered.
Answered(l) == queries[l] - (IF pollPc[l] = "inflight" THEN 1 ELSE 0)

\* Every answer leg l's poll has had so far was not-found.
AllNotFound(l) == retryCount[l] = Answered(l)

\* Leg l's poll returned the not-observed error.
NotObserved(l) == pollPc[l] = "done" /\ outcome[l].err = ErrNotFoundAfterRetries

----------------------------------------------------------------------------
\* C1: while every answer is not-found, a poll makes at most 11
\* TransactionByHash calls (1 + maxRetries); the 11th not-found answer ends it
\* with the not-observed error, and that error is returned after exactly 11 calls.
C1_NotFoundBound ==
    \A l \in Legs :
        AllNotFound(l) =>
            /\ queries[l] <= maxRetries + 1
            /\ (Answered(l) = maxRetries + 1 => NotObserved(l))
            /\ (NotObserved(l) => queries[l] = maxRetries + 1)

\* A poll that was answered not-found 11 times and returned not-observed.
C1_Witness ==
    \E l \in Legs :
        AllNotFound(l) /\ NotObserved(l) /\ queries[l] = maxRetries + 1

\* C3: after a pending answer the poll is waiting, re-querying or has a query in
\* flight, whatever the number of pending answers so far; if it has returned
\* with the pending answer as its last one, it returned the cancellation error.
C3_PendingUnbounded ==
    \A l \in Legs :
        lastAnswer[l] = "pending" =>
            \/ pollPc[l] \in {"waitPending", "query", "inflight"}
            \/ pollPc[l] = "done" /\ outcome[l].err = ErrCancelled /\ ctxDone

\* A poll that re-queries after as many pending answers as the model gives.
C3_Witness ==
    \E l \in Legs :
        pendingCount[l] = MaxPending /\ lastAnswer[l] = "pending" /\ pollPc[l] = "inflight"

\* C4: a poll that was once answered found (pending or mined) never returns
\* the not-observed error.
C4_FoundNeverNotObserved ==
    \A l \in Legs : found[l] => ~NotObserved(l)

\* C5: a poll at one of its two waits with the context cancelled makes no
\* further step but to return the cancellation error, with no new query.
C5_CancelAtWait ==
    [][\A l \in Legs :
          (pollPc[l] \in Waits /\ ctxDone) =>
              \/ pollPc'[l] = pollPc[l]
              \/ /\ pollPc'[l] = "done"
                 /\ outcome'[l].err = ErrCancelled
                 /\ queries'[l] = queries[l]]_vars

\* A poll cancelled in its pending wait after it had also waited on not-found.
C5_Witness ==
    \E l \in Legs :
        /\ pollPc[l] = "done" /\ outcome[l].err = ErrCancelled
        /\ lastAnswer[l] = "pending" /\ retryCount[l] > 0

\* C6: once the caller's context is cancelled, every call that is suspended
\* (the nonce fetch, the eth_sendXTransaction call, a poll wait) is suspended
\* on a context that is done.
C6_CancelReachesSuspensions ==
    ctxDone =>
        /\ \A l \in Legs : buildPc[l] = "nonce" => CtxIsDone(GetNonceCtx)
        /\ submitPc = "call" => CtxIsDone(SendCallCtx)
        /\ \A l \in Legs : pollPc[l] \in Waits => CtxIsDone(PollWaitCtx)

\* C7: after a mined answer the receipt is fetched once and the call returns:
\* (tx, receipt, nil) with the receipt's status as fetched, or an error with
\* nil tx and nil receipt; no query follows a receipt fetch.
C7_ReceiptOnce ==
    \A l \in Legs :
        /\ receiptFetches[l] <= 1
        /\ lastAnswer[l] = "mined" => pollPc[l] \in {"receipt", "done"}
        /\ pollPc[l] = "done" /\ lastAnswer[l] = "mined" => receiptFetches[l] = 1
        /\ receiptFetches[l] = 1 =>
              /\ pollPc[l] = "done" /\ lastAnswer[l] = "mined"
              /\ \/ /\ outcome[l].err = ErrNil /\ outcome[l].tx
                    /\ outcome[l].receipt \in {"success", "failed"}
                 \/ /\ outcome[l].err = ErrGetReceipt /\ ~outcome[l].tx
                    /\ outcome[l].receipt = "nil"

\* One poll returned a failed receipt without error, the other a receipt error.
C7_Witness ==
    \E l, m \in Legs :
        /\ outcome[l].receipt = "failed" /\ outcome[l].err = ErrNil
        /\ outcome[m].err = ErrGetReceipt /\ receiptFetches[m] = 1

C9_NeverReportedMessage ==
    \A l \in Legs :
        (submitErr = ErrNil /\ pollPc[l] = "done" /\ AllNotFound(l)
            /\ Answered(l) = maxRetries + 1)
        => outcome[l].err = ErrGetTx

\* C10 as stated: once a found transaction has been reported pending more often
\* than a pending-wait budget and the wait after that answer is over, the poll
\* has ended not-observed (it does not query again).
C10_PendingWaitBudget ==
    \A l \in Legs :
        (pendingCount[l] > PendingBudget /\ lastAnswer[l] = "pending"
            /\ pollPc[l] # "waitPending")
        => NotObserved(l)

\* C10, amended: the not-observed error is only ever the answer to a not-found
\* answer that takes retryCount past maxRetries; no number of pending answers
\* produces it.
C10_NoPendingBudget ==
    \A l \in Legs :
        NotObserved(l) => lastAnswer[l] = "notFound" /\ retryCount[l] = maxRetries + 1

\* A poll about to query again after more pending answers than the budget.
C10_Witness ==
    \E l \in Legs :
        pendingCount[l] > PendingBudget /\ lastAnswer[l] = "pending" /\ pollPc[l] = "query"

\* The five error kinds of GetTransactionDetails.
ErrorKinds == {ErrConnect, ErrNotFoundAfterRetries, ErrCancelled, ErrGetTx, ErrGetReceipt}

\* C11 as stated: every error GetTransactionDetails returns names the target
\* chain and the transaction hash.
C11_ErrorsNameChainAndHash ==
    \A l \in Legs :
        (pollPc[l] = "done" /\ outcome[l].err # ErrNil)
        => /\ "hash" \in ErrorNames(outcome[l].err)
           /\ {"chain", "rpcURL"} \cap ErrorNames(outcome[l].err) # {}

\* C11, amended: a returned call reports no error exactly when the transaction
\* was mined and its receipt fetched; otherwise it returns the one error kind
\* that belongs to the event that ended it.  The connection error names the RPC
\* URL and no hash, every other error names the hash and no chain, only the
\* not-observed error names the retry count, and a cancellation that fires
\* while a query is in flight comes back as that query's failure.
C11_ErrorContext ==
    \A l \in Legs :
        pollPc[l] = "done" =>
            LET err == outcome[l].err
                receiptFailed == receiptAnswer[l] \in {"notFound", "rpcErr", "ctxErr"}
            IN  /\ err \in ErrorKinds \cup {ErrNil}
                /\ err = ErrNil <=> receiptAnswer[l] \in {"success", "failed"}
                /\ err = ErrConnect <=> queries[l] = 0
                /\ err = ErrNotFoundAfterRetries
                       <=> (lastAnswer[l] = "notFound" /\ retryCount[l] = maxRetries + 1)
                /\ err = ErrNotFoundAfterRetries => outcome[l].n = maxRetries
                /\ err = ErrCancelled
                       <=> (lastAnswer[l] \in {"notFound", "pending"}
                            /\ retryCount[l] <= maxRetries)
                /\ err = ErrCancelled => ctxDone
                /\ err = ErrGetTx <=> lastAnswer[l] \in {"rpcErr", "ctxErr"}
                /\ err = ErrGetReceipt <=> receiptFailed
                /\ "hash" \in ErrorNames(err) <=> err \in ErrorKinds \ {ErrConnect}
                /\ "rpcURL" \in ErrorNames(err) <=> err = ErrConnect
                /\ "retries" \in ErrorNames(err) <=> err = ErrNotFoundAfterRetries
                /\ "cause" \in ErrorNames(err) <=> err \in {ErrConnect, ErrGetTx, ErrGetReceipt}

\* A poll whose query was in flight when the context ended has returned the
\* query failure.
C11_Witness ==
    \E l \in Legs :
        pollPc[l] = "done" /\ lastAnswer[l] = "ctxErr" /\ outcome[l].err = ErrGetTx

\* C12 as stated: every SendCrossTxRequestMsg invocation that has returned has
\* issued exactly one remote call.
C12_ExactlyOneCall ==
    submitPc = "done" => Len(rpcLog) = 1

\* C12, amended: an invocation issues at most one remote call, none when the
\* dial fails and exactly one otherwise; the call has method
\* eth_sendXTransaction and, as its single parameter, "0x" followed by two hex
\* digits per byte of the encoded bundle; a failed call is not tried again but
\* returned.
C12_OneCallAfterDial ==
    /\ Len(rpcLog) <= 1
    /\ rpcCalls = Len(rpcLog)
    /\ \A i \in 1..Len(rpcLog) :
          /\ rpcLog[i].method = "eth_sendXTransaction"
          /\ Len(rpcLog[i].params) = 1
          /\ SubSeq(rpcLog[i].params[1], 1, 2) = <<"0", "x">>
          /\ Len(rpcLog[i].params[1]) = 2 + 2 * Len(encoded)
          /\ rpcLog[i].params[1] = HexEncode(encoded)
    /\ submitPc = "idle" => rpcLog = <<>>
    /\ submitPc = "call" => Len(rpcLog) = 1
    /\ submitPc = "done" => (Len(rpcLog) = 1 <=> submitErr # ErrDialRPC)
    /\ sendAnswer \in {"rpcErr", "ctxErr"} => (submitPc = "done" /\ submitErr = ErrRPCCall)

\* An invocation whose one call failed has returned the failure.
C12_Witness ==
    submitPc = "done" /\ sendAnswer = "rpcErr" /\ Len(rpcLog) = 1

\* C13 as stated: SendCrossTxRequestMsg reports success only when the
\* coordinator's response is null.
C13_SuccessOnlyOnNull ==
    (submitPc = "done" /\ submitErr = ErrNil) => sendAnswer = "null"

\* C13, amended: SendCrossTxRequestMsg reports success exactly when the call
\* came back without an error, whatever its result, null or not; a transport
\* failure, a JSON-RPC error object or a cancelled context yields "RPC call
\* failed", a failed dial "could not connect to custom rpc".
C13_SuccessIffNoCallError ==
    submitPc = "done" =>
        /\ submitErr = ErrNil <=> sendAnswer \in {"null", "nonNull"}
        /\ submitErr = ErrRPCCall <=> sendAnswer \in {"rpcErr", "ctxErr"}
        /\ submitErr = ErrDialRPC <=> sendAnswer = "none"

\* A submission whose call was answered with a non-null result has returned nil.
C13_Witness ==
    submitPc = "done" /\ sendAnswer = "nonNull" /\ submitErr = ErrNil

\* C14: once SendCrossTxRequestMsg has returned, with success, a dial error or a
\* call error, no connection it opened is still open.
C14_NoOpenConnAfterReturn ==
    /\ submitPc = "done" => openConns = 0
    /\ submitPc = "call" => openConns = 1

\* An invocation that opened a connection and returned a call error.
C14_Witness ==
    submitPc = "done" /\ submitErr = ErrRPCCall /\ Len(rpcLog) = 1 /\ openConns = 0

\* C15: in the bridge flows no leg is handed to SendTransaction; the legs leave
\* the client only inside the one eth_sendXTransaction call, whose bundle holds
\* both of them.
C15_LegsOnlyInBundle ==
    /\ directSends = {}
    /\ Len(rpcLog) <= 1
    /\ \A i \in 1..Len(rpcLog) :
          /\ rpcLog[i].method = "eth_sendXTransaction"
          /\ rpcLog[i].params = <<HexEncode(Marshal(bundle[1]))>>
          /\ bundle[1].requests[1].transaction = <<signedTx["A"]>>
          /\ bundle[1].requests[2].transaction = <<signedTx["B"]>>

\* A bridge flow with caller-supplied nonces whose bundle was accepted.
C15_Witness ==
    /\ \A l \in Legs : buildCall[l] = "CreateTransactionWithNonce"
    /\ submitPc = "done" /\ submitErr = ErrNil

\* C16: every message CreateCrossTxRequestMsg builds has senderId "client" and
\* exactly two transaction requests, ac1's first and ac2's second, each with
\* exactly one payload.
C16_TwoLegsInArgumentOrder ==
    bundle # <<>> =>
        /\ bundle[1].senderId = "client"
        /\ Len(bundle[1].requests) = 2
        /\ \A i \in 1..2 : Len(bundle[1].requests[i].transaction) = 1
        /\ bundle[1].requests[1].transaction[1] = signedTx["A"]
        /\ bundle[1].requests[2].transaction[1] = signedTx["B"]
        /\ bundle[1].requests[1].chainId \in {rollupChainID["A"], -rollupChainID["A"]}
        /\ bundle[1].requests[2].chainId \in {rollupChainID["B"], -rollupChainID["B"]}

\* A message built from two accounts on different rollups and two different
\* signed transactions.
C16_Witness ==
    /\ bundle # <<>>
    /\ signedTx["A"] # signedTx["B"]
    /\ rollupChainID["A"] \notin {rollupChainID["B"], -rollupChainID["B"]}

\* C17: for each leg the emitted chain id is the chain id of the account's
\* rollup and the emitted payload is the signed bytes handed in, whatever chain
\* they were signed for.
C17_ChainIdAndPayloadAsGiven ==
    bundle # <<>> =>
        /\ bundle[1].requests[1].chainId = rollupChainID["A"]
        /\ bundle[1].requests[2].chainId = rollupChainID["B"]
        /\ bundle[1].requests[1].transaction = <<signedTx["A"]>>
        /\ bundle[1].requests[2].transaction = <<signedTx["B"]>>

RECURSIVE BigEndian(_)
\* The shortest big-endian byte string of a natural number.
BigEndian(n) == IF n = 0 THEN <<>> ELSE BigEndian(n \div 256) \o <<n % 256>>

\* The chainId fields, of any wire type, of the i-th transaction request in the
\* encoded message.
EncodedChainIdFields(i) ==
    LET xt == FieldsOf(ParseFields(encoded, 1), 2, 2)[1].bytes
        req == FieldsOf(ParseFields(xt, 1), 1, 2)[i].bytes
    IN  SelectSeq(ParseFields(req, 1), LAMBDA f : f.field = 1)

\* C19: in the serialized message the chainId field of each transaction request
\* is a byte string, the big-endian minimal encoding of the target chain's id.
C19_ChainIdIsBigEndianBytes ==
    encoded # <<>> =>
        /\ EncodedChainIdFields(1)
              = <<[field |-> 1, wire |-> 2, num |-> 0,
                   bytes |-> BigEndian(Uint64(rollupChainID["A"]))]>>
        /\ EncodedChainIdFields(2)
              = <<[field |-> 1, wire |-> 2, num |-> 0,
                   bytes |-> BigEndian(Uint64(rollupChainID["B"]))]>>

\* C20: CreateTransactionWithNonce makes no nonce query and signs with the nonce
\* it was given; CreateTransaction makes one pending-nonce query, signs nothing
\* before the answer, signs with the nonce the chain reported, and signs nothing
\* when the query fails.
C20_NonceSource ==
    \A l \in Legs :
        /\ buildCall[l] = "CreateTransactionWithNonce" =>
              /\ nonceQueries[l] = 0
              /\ signed[l] # <<>> <=> buildErr[l] \in {ErrNil, ErrMarshalTx}
              /\ signed[l] # <<>> => signed[l][1].nonce = nonceArg[l][1]
        /\ buildCall[l] = "CreateTransaction" =>
              /\ nonceQueries[l] = 1
              /\ nonceArg[l] = <<>>
              /\ buildPc[l] = "nonce" => signed[l] = <<>>
              /\ buildErr[l] = ErrGetNonce => (signed[l] = <<>> /\ signedTx[l] = <<>>)
              /\ signed[l] # <<>> => signed[l][1].nonce = pendingNonce[l]
        /\ buildPc[l] = "ok" =>
              /\ signed[l] # <<>>
              /\ signedTx[l] = MarshalBinary(signed[l][1])

\* One leg built with a supplied nonce that is not the chain's pending nonce,
\* the other leg's nonce query failed.
C20_Witness ==
    /\ buildCall["A"] = "CreateTransactionWithNonce"
    /\ buildPc["A"] = "ok"
    /\ nonceArg["A"] # <<pendingNonce["A"]>>
    /\ buildCall["B"] = "CreateTransaction"
    /\ buildErr["B"] = ErrGetNonce

\* C21: every transaction a builder returns is a dynamic-fee transaction whose
\* embedded chain id and whose signer chain id are the chain id of the
\* account's rollup.
C21_SignedForAccountRollup ==
    \A l \in Legs :
        txOut[l] # <<>> =>
            /\ txOut[l][1].type = "DynamicFeeTx"
            /\ txOut[l][1].chainId = rollupChainID[l]
            /\ txOut[l][1].signerChainId = rollupChainID[l]

\* Both builders have returned a transaction, for accounts on different rollups.
C21_Witness ==
    /\ buildCall["A"] = "CreateTransaction" /\ txOut["A"] # <<>>
    /\ buildCall["B"] = "CreateTransactionWithNonce" /\ txOut["B"] # <<>>
    /\ rollupChainID["A"] # rollupChainID["B"]

CallState(l) ==
    <<pollPc[l], pollRollup[l], retryCount[l], notFoundSeen[l], pendingCount[l], queries[l],
      receiptFetches[l], lastAnswer[l], found[l], waitLog[l], pollConn[l], receiptAnswer[l],
      outcome[l]>>

\* What a call that runs alone returns, given the answers it received: the
\* dial's, the last TransactionByHash answer and how many answers were
\* not-found, and the receipt's.
AloneOutcome(l) ==
    IF queries[l] = 0 THEN Returned(FALSE, "nil", ErrConnect, 0)
    ELSE CASE lastAnswer[l] = "notFound" ->
                 IF notFoundSeen[l] > maxRetries
                 THEN Returned(FALSE, "nil", ErrNotFoundAfterRetries, maxRetries)
                 ELSE Returned(FALSE, "nil", ErrCancelled, 0)
           [] lastAnswer[l] = "pending" -> Returned(FALSE, "nil", ErrCancelled, 0)
           [] lastAnswer[l] = "mined" ->
                 IF receiptAnswer[l] \in {"success", "failed"}
                 THEN Returned(TRUE, receiptAnswer[l], ErrNil, 0)
                 ELSE Returned(FALSE, "nil", ErrGetReceipt, 0)
           [] OTHER -> Returned(FALSE, "nil", ErrGetTx, 0)

\* C23: with the two polls running concurrently, a step of one call changes
\* nothing the other call holds, each call counts its own not-found answers
\* only, and each call returns what it would return alone on the answers it
\* received.
C23_ConcurrentPollsIndependent ==
    /\ [](\A l \in Legs :
             /\ retryCount[l] = notFoundSeen[l]
             /\ (pollPc[l] \notin {"idle", "done"} /\ lastAnswer[l] = "notFound")
                   => notFoundSeen[l] <= maxRetries
             /\ pollPc[l] = "done" => outcome[l] = AloneOutcome(l))
    /\ [][\A l, m \in Legs :
             (l # m /\ CallState(l)' # CallState(l)) => CallState(m)' = CallState(m)]_vars

\* Leg B's call has ended not-observed while leg A's call, started at the same
\* time, is in a wait after fewer not-found answers.
C23_Witness ==
    /\ parallel
    /\ NotObserved("B")
    /\ pollPc["A"] = "waitNotFound"
    /\ notFoundSeen["A"] < notFoundSeen["B"]
    /\ found["A"]

\* C24: each leg's hash is polled on the chain of the account that signed it.
C24_PolledOnSigningChain ==
    \A l \in Legs :
        pollRollup[l] # <<>> => pollRollup[l] = <<txOut[l][1].chainId>>

\* C27: GenerateRandomSessionID returns a non-nil integer n with 0 <= n < 2^63
\* when the entropy source delivers, and the process exits when it fails; it
\* never returns after a failed read.
C27_SessionIDInRangeOrExit ==
    /\ sessionPc = "returned" =>
          /\ sessionEntropy = "ok"
          /\ sessionID # <<>>
          /\ ~sessionID[1].neg
          /\ BytesLess(sessionID[1].abs, MaxBytes)
    /\ sessionPc = "exited" <=> sessionEntropy = "error"

\* The largest id: every byte read was 255 and the first lost its top bit.
C27_Witness ==
    /\ sessionPc = "returned"
    /\ sessionID = <<[neg |-> FALSE,
                      abs |-> [i \in 1..IDBytes |-> IF i = 1 THEN 127 ELSE 255]]>>

ExternalLoads == envSet /\ fileReadable /\ loadConfig(externalDoc) = ErrNil

\* The embedded document loads.
EmbeddedLoads == loadConfig(embeddedDoc) = ErrNil

\* C30: a configuration loaded at start-up is the external one when CONFIG_PATH
\* is set and the file loads, and the embedded one when CONFIG_PATH is not set
\* or the external file fails to load; the process panics only when neither
\* source provides a valid configuration.
C30_LoadingPriority ==
    /\ cfgPc = "loaded" =>
          cfgSource = IF ExternalLoads THEN <<"external">> ELSE <<"embedded">>
    /\ cfgPc = "panicked" => ~ExternalLoads /\ ~EmbeddedLoads

\* The document init() loads from: the file when CONFIG_PATH is set, else the
\* embedded one.
SourceDoc == IF envSet THEN externalDoc ELSE embeddedDoc

\* A document has rollup-a and rollup-b, each with a non-zero id, a non-empty
\* rpc-url and a non-empty pk, and the three contracts, each with a non-zero
\* address and a non-empty ABI.
Complete(doc) ==
    /\ {ChainNameRollupA, ChainNameRollupB} \subseteq DOMAIN doc.chains
    /\ \A n \in {ChainNameRollupA, ChainNameRollupB} :
          doc.chains[n].id # 0 /\ doc.chains[n].rpcUrl # <<>> /\ doc.chains[n].pk # <<>>
    /\ {ContractNameBridge, ContractNamePingPong, ContractNameToken}
          \subseteq DOMAIN doc.contracts
    /\ \A n \in {ContractNameBridge, ContractNamePingPong, ContractNameToken} :
          doc.contracts[n].address # 0 /\ doc.contracts[n].abi # <<>>

\* C31: init() completes without a panic only if the configuration it loaded
\* is complete, as read and as kept in Values; on any other document init()
\* ends in a panic.
C31_InitCompletesOnlyIfComplete ==
    /\ cfgPc = "loaded" =>
          /\ SourceDoc.yaml /\ Complete(SourceDoc)
          /\ Values # <<>> /\ Complete(Values[1])
    /\ (cfgPc \in {"loaded", "panicked"} /\ ~(SourceDoc.yaml /\ Complete(SourceDoc)))
          => cfgPc = "panicked"

\* One start-up loaded a complete external document.
C31_Witness ==
    /\ cfgPc = "loaded" /\ cfgSource = <<"external">>
    /\ Complete(externalDoc) /\ ~Complete(embeddedDoc)

\* A private key starts with "0x" or "0X".
HasHexPrefix(pk) == Len(pk) >= 2 /\ pk[1] = "0" /\ pk[2] \in {"x", "X"}

\* C32: once the configuration is loaded, no chain entry's private key starts
\* with "0x" or "0X", whatever the key was in the document.
C32_NoHexPrefixAfterLoad ==
    cfgPc = "loaded" => \A n \in DOMAIN Values[1].chains : ~HasHexPrefix(Values[1].chains[n].pk)

\* C33: the not-found counter of a call starts at 0, never decreases and is
\* not reset by a pending answer: it equals the number of not-found answers
\* the call has had, and the call returns the not-found error exactly when
\* that number reaches 11, whatever the number of pending answers.
C33_RetryCounterNeverReset ==
    /\ [](\A l \in Legs :
             /\ pollPc[l] = "idle" => retryCount[l] = 0
             /\ retryCount[l] = notFoundSeen[l]
             /\ notFoundSeen[l] <= maxRetries + 1
             /\ NotObserved(l) <=> notFoundSeen[l] = maxRetries + 1)
    /\ [][\A l \in Legs : retryCount'[l] >= retryCount[l]]_vars

\* A call that returned the not-found error on its 11th not-found answer after
\* as many pending answers as the model gives.
C33_Witness ==
    \E l \in Legs :
        /\ NotObserved(l) /\ notFoundSeen[l] = maxRetries + 1
        /\ pendingCount[l] = MaxPending /\ lastAnswer[l] = "notFound"

\* C34: in a GetTransactionDetails call every TransactionByHash query but the
\* first follows exactly one wait, every wait has the same fixed interval
\* whether it follows a not-found or a pending answer, no wait precedes the
\* first query and none follows the terminal answer (a wait that was begun and
\* not followed by a query is one the cancellation ended).
C34_OneFixedWaitBetweenQueries ==
    \A l \in Legs :
        /\ \A i \in 1..Len(waitLog[l]) : waitLog[l][i] = retryInterval
        /\ queries[l] = 0 => waitLog[l] = <<>>
        /\ pollPc[l] \in {"query"} \cup Waits => Len(waitLog[l]) = queries[l]
        /\ pollPc[l] \in {"inflight", "receipt"} => Len(waitLog[l]) = queries[l] - 1
        /\ (pollPc[l] = "done" /\ queries[l] > 0) =>
              IF outcome[l].err = ErrCancelled
              THEN Len(waitLog[l]) = queries[l]
              ELSE Len(waitLog[l]) = queries[l] - 1

\* A call that waited after not-found and after pending answers and returned
\* on a mined answer.
C34_Witness ==
    \E l \in Legs :
        /\ pollPc[l] = "done" /\ outcome[l].err = ErrNil
        /\ notFoundSeen[l] > 0 /\ pendingCount[l] > 0
        /\ Len(waitLog[l]) = notFoundSeen[l] + pendingCount[l]

\* C35: DistributeEth fetches the sponsor's nonce once and sends the transfer
\* to recipient i with nonce n0 + i; a transfer is sent only after every earlier
\* one has a successful receipt; the first build, send, poll or failed-receipt
\* error is returned, and after it no further transfer is sent.
C35_DistributeSequential ==
    /\ [](/\ distFetches <= 1
          /\ \A k \in 1..Len(distSent) :
                /\ distN0 # <<>>
                /\ distSent[k].to = k - 1
                /\ distSent[k].nonce = distN0[1] + (k - 1)
                /\ \A j \in 1..(k - 1) :
                      /\ distSent[j].result = "ok"
                      /\ j <= Len(distReceipts) /\ distReceipts[j] = "success"
          /\ (distSent # <<>> /\ distSent[Len(distSent)].result = "err")
                => distPc = "done" /\ distErr = ErrDistSend
          /\ (distReceipts # <<>> /\ distReceipts[Len(distReceipts)] = "err")
                => distPc = "done" /\ distErr = ErrDistReceipt
          /\ (distReceipts # <<>> /\ distReceipts[Len(distReceipts)] = "failed")
                => distPc = "done" /\ distErr = ErrDistFailed
          /\ distErr = ErrDistCreate => distPc = "done" /\ Len(distSent) = distIdx
          /\ distErr = ErrGetNonce => distPc = "done" /\ distSent = <<>>
          /\ distErr = ErrNil => Len(distReceipts) = recipients)
    /\ [][distPc = "done" => distSent' = distSent /\ distPc' = "done"]_vars

\* Two transfers were confirmed and the third failed on its receipt.
C35_Witness ==
    /\ distPc = "done" /\ distErr = ErrDistFailed
    /\ Len(distSent) = 3 /\ distSent[3].nonce = distN0[1] + 2 /\ distN0[1] > 0

\* C36: the two legs one bridge call packs embed the same session id, the one
\* drawn for that call, and the receiveTokens leg names the sender and the
\* receiver of the send leg: ac1's address and ac2's address.
C36_LegsShareSessionAndParties ==
    (calldata["A"] # <<>> /\ calldata["B"] # <<>>) =>
        /\ calldata["A"][1].sessionId = calldata["B"][1].sessionId
        /\ calldata["A"][1].sessionId = sessionID[1]
        /\ calldata["A"][1].sender = address["A"]
        /\ calldata["A"][1].receiver = address["B"]
        /\ calldata["B"][1].sender = calldata["A"][1].sender
        /\ calldata["B"][1].receiver = calldata["A"][1].receiver

\* The values of a sequence.
Range(q) == {q[k] : k \in 1..Len(q)}

\* C37: in the two stress scenarios the nonces planned for one account are
\* pairwise distinct and fill the range that starts at the account's fetched
\* nonce, with no gap: none is reused, none skipped.
C37_PlannedNoncesGapFree ==
    \A l \in Legs :
        /\ Cardinality(Range(planned[l])) = Len(planned[l])
        /\ Range(planned[l]) = planN0[l]..(planN0[l] + Len(planned[l]) - 1)

\* The mixed scenario planned all its iterations from non-zero nonces.
C37_Witness ==
    /\ planTest = "NormalTxsMixWithCrossRollupTxs"
    /\ planI = MaxTxs /\ Len(planned["A"]) = 2 * MaxTxs /\ Len(planned["B"]) = MaxTxs
    /\ planN0["A"] > 0 /\ planN0["B"] > 0

\* The bitwise or of two bytes.
RECURSIVE ByteOr(_, _)
ByteOr(a, b) ==
    IF a = 0 /\ b = 0 THEN 0
    ELSE (IF a % 2 = 1 \/ b % 2 = 1 THEN 1 ELSE 0) + 2 * ByteOr(a \div 2, b \div 2)

\* x | y on big.Ints.
BigOr(x, y) == [k \in 1..IntBytes |-> ByteOr(x[k], y[k])]

\* The big.Int of a byte string.
AsBigInt(bytes) == Zeros(IntBytes - Len(bytes)) \o bytes

\* C38: for all non-negative arguments the pack functions return the 32-byte
\* big-endian value (v << 128) | c: the upper 16 bytes hold v and the lower 16
\* bytes hold c.
C38_PackedHalvesHoldArguments ==
    packPc # "idle" =>
        /\ packPc = "returned"
        /\ AsBigInt(packOut) = BigOr(Lsh128(packV), packC)
        /\ AsBigInt(SubSeq(packOut, 1, HalfBytes)) = packV
        /\ AsBigInt(SubSeq(packOut, HalfBytes + 1, OutBytes)) = packC

====
